---------------------------- MODULE Spec2Model ----------------------------
(***************************************************************************)
(* A model of the data-processing core of vyaaparik-ai-llm                 *)
(* (src/src/lib/data-processing.ts): the aggregation generateBusinessSummary*)
(* with the sentiment scorer, the three schema validators and the decoder  *)
(* parseCsvFile; of the upload component DataUpload that drives them       *)
(* (src/unnamed/part_001); of the demo call site getDemoBusinessSummary    *)
(* (src/src/lib/demo-data.ts); and of the chat component                   *)
(* (src/src/components/ChatInterface.tsx).                                 *)
(*                                                                         *)
(* The rows reaching the aggregation are untyped field maps produced by    *)
(* the CSV decoder: a cell of a numeric column is a number when parseFloat *)
(* accepts it and keeps its text otherwise, and a short row lacks its      *)
(* trailing fields.  The model therefore keeps JavaScript's values and the *)
(* operators the code applies to them (||, +, /, <, -, Math.min/max).      *)
(***************************************************************************)
EXTENDS Integers, Sequences, FiniteSets, TLC

VARIABLES
    salesData,      \* first argument of the call
    inventoryData,  \* second argument of the call
    reviewData,     \* third argument of the call
    result,         \* outcome of the call: none yet, a summary, or a throw
    again,          \* outcome of a second call on the same arguments
    dataset,        \* kind of the rows handed to a validator
    fileRows,       \* the rows handed to the validator
    validationResult, \* what the validator returned
    csvFile,        \* the file handed to parseCsvFile
    promise,        \* the promise parseCsvFile returned
    warned,         \* whether console.warn was called with the parse warnings
    uploadState,    \* DataUpload: file, status, data and errors of each kind
    isProcessing,   \* DataUpload: the analysis is being prepared
    inFlight,       \* onDrop calls waiting for parseCsvFile
    dropCount,      \* number of files dropped so far
    pendingWrite,   \* handleProceedToAnalysis waiting for addDoc
    handed,         \* the calls of onComplete made so far
    lastToast,      \* title of the last toast shown
    messages,       \* ChatInterface: the messages shown
    inputValue,     \* ChatInterface: the text of the input
    isLoading,      \* ChatInterface: a query is being answered
    isTyping,       \* ChatInterface: the typing indicator is shown
    pendingQuery,   \* handleSendMessage waiting for queryGemini
    sendCount       \* number of messages sent so far

summaryVars == <<salesData, inventoryData, reviewData, result, again>>

validatorVars == <<dataset, fileRows, validationResult>>

decoderVars == <<csvFile, promise, warned>>

uploadVars ==
    <<uploadState, isProcessing, inFlight, dropCount, pendingWrite, handed, lastToast>>

chatVars == <<messages, inputValue, isLoading, isTyping, pendingQuery, sendCount>>

vars == <<summaryVars, validatorVars, decoderVars, uploadVars, chatVars>>

---------------------------------------------------------------------------
(* Bounds of the model.                                                    *)

MaxSales == 3
MaxInventory == 3
MaxReviews == 3
MaxCapInventory == 11
MaxCapTextInventory == 6
MaxUploadedSales == 6
MaxValidatedSales == 6
MaxValidatedRows == 2
MaxCsvRows == 3
MaxDrops == 4
MaxProceeds == 1

(* The files dropped where the uploads are taken alone.                    *)
MaxEarlyDrops == 2

(* The messages sent in the chat.                                          *)
MaxSends == 2

(* The demo generators: rows of sales (100 in the code), products (6) and  *)
(* reviews (50).                                                           *)
MaxDemoSales == 2

MaxDemoProducts == 2

MaxDemoReviews == 2

---------------------------------------------------------------------------
(* JavaScript values.  A number is the fraction n/d in lowest terms        *)
(* (d > 0); NaN is kept apart from the numbers.  A string cell is either   *)
(* the empty text or a text on which parseFloat and Number give NaN.       *)

Abs(x) == IF x < 0 THEN -x ELSE x

RECURSIVE GCD(_, _)
GCD(a, b) == IF b = 0 THEN a ELSE GCD(b, a % b)

Fraction(n, d) ==
    LET g == GCD(Abs(n), Abs(d))
        sgn == IF d < 0 THEN -1 ELSE 1
    IN  [t |-> "number", n |-> (sgn * n) \div g, d |-> (sgn * d) \div g, s |-> ""]

Num(n) == [t |-> "number", n |-> n, d |-> 1, s |-> ""]

Str(s) == [t |-> "string", n |-> 0, d |-> 1, s |-> s]

Undefined == [t |-> "undefined", n |-> 0, d |-> 1, s |-> ""]

NaN == [t |-> "NaN", n |-> 0, d |-> 1, s |-> ""]

IsNumber(v) == v.t = "number"

(* ToBoolean: 0, NaN, "" and undefined are falsy.                          *)
Truthy(v) ==
    CASE v.t = "number" -> v.n # 0
      [] v.t = "string" -> v.s # ""
      [] OTHER -> FALSE

(* a || b                                                                  *)
Or(a, b) == IF Truthy(a) THEN a ELSE b

(* The texts of the model that hold nothing but white space.               *)
BlankTexts == {"", " "}

(* ToNumber: a blank text is 0, every other text of the model is NaN.      *)
ToNumber(v) ==
    CASE v.t = "number" -> v
      [] v.t = "string" -> IF v.s \in BlankTexts THEN Num(0) ELSE NaN
      [] OTHER -> NaN

(* ToString.  Only integers meet a string in this code: the quotients of   *)
(* lines 74, 97 and 113 are never added to anything.                       *)
ToStr(v) ==
    CASE v.t = "string" -> v.s
      [] v.t = "number" -> IF v.d = 1 THEN ToString(v.n)
                           ELSE ToString(v.n) \o "/" \o ToString(v.d)
      [] v.t = "NaN" -> "NaN"
      [] OTHER -> "undefined"

(* a + b: concatenation as soon as one operand is a string.                *)
Plus(a, b) ==
    IF a.t = "string" \/ b.t = "string" THEN Str(ToStr(a) \o ToStr(b))
    ELSE IF a.t = "number" /\ b.t = "number"
         THEN Fraction(a.n * b.d + b.n * a.d, a.d * b.d)
         ELSE NaN

(* a - b: always numeric.                                                  *)
Minus(a, b) ==
    LET x == ToNumber(a)
        y == ToNumber(b)
    IN  IF x.t = "number" /\ y.t = "number"
        THEN Fraction(x.n * y.d - y.n * x.d, x.d * y.d)
        ELSE NaN

(* a / k for a positive integer k.                                         *)
Div(a, k) ==
    LET x == ToNumber(a)
    IN  IF x.t = "number" THEN Fraction(x.n, x.d * k) ELSE NaN

NumLess(x, y) == x.n * y.d < y.n * x.d

(* The texts of the model in code-unit order, for the comparison of two    *)
(* strings by <.                                                           *)
TextOrder == <<"", " ", "N/A", "abc", "none">>

TextRank(s) == CHOOSE i \in 1..Len(TextOrder) : TextOrder[i] = s

(* a < b: two strings compare as texts, anything else as numbers, and a    *)
(* comparison with NaN is false.                                           *)
LessThan(a, b) ==
    IF a.t = "string" /\ b.t = "string" THEN TextRank(a.s) < TextRank(b.s)
    ELSE LET x == ToNumber(a)
             y == ToNumber(b)
         IN  x.t = "number" /\ y.t = "number" /\ NumLess(x, y)

MathMin(a, b) ==
    IF a.t # "number" \/ b.t # "number" THEN NaN
    ELSE IF NumLess(b, a) THEN b ELSE a

MathMax(a, b) ==
    IF a.t # "number" \/ b.t # "number" THEN NaN
    ELSE IF NumLess(a, b) THEN b ELSE a

(* Property key of a value used as an object index.                        *)
ToPropertyKey(v) == ToStr(v)

---------------------------------------------------------------------------
(* Array.prototype.sort(comparefn).  The comparator's answers are tabled   *)
(* as signs (a NaN answer counts as 0).  With a consistent comparator the  *)
(* result is the stable sorted order; with an inconsistent one the order   *)
(* is implementation-defined, and every permutation is an outcome.         *)

Sign(v) ==
    IF v.t # "number" THEN 0
    ELSE IF v.n < 0 THEN -1 ELSE IF v.n > 0 THEN 1 ELSE 0

(* A function over 1..n as the sequence of its values, computed once.      *)
Table(f) == f \o <<>>

(* The number of elements the comparator puts strictly before element i.  *)
Rank(M, n) == Table([i \in 1..n |-> Cardinality({j \in 1..n : M[j][i] < 0})])

InducedBy(M, rank, n) ==
    \A a, b \in 1..n :
        M[a][b] = (IF rank[a] < rank[b] THEN -1
                   ELSE IF rank[a] > rank[b] THEN 1 ELSE 0)

(* A consistent comparator (ECMAScript: it divides the elements into       *)
(* totally ordered equivalence classes) is one that a rank induces.        *)
Consistent(M, n) == InducedBy(M, Rank(M, n), n)

(* Where the stable sort puts element i: after the elements before it in   *)
(* the order and after the earlier elements equal to it.                   *)
StablePosition(M, rank, n) ==
    Table([i \in 1..n |->
              rank[i] + Cardinality({j \in 1..(i - 1) : M[j][i] = 0}) + 1])

InverseOf(pos, n) == Table([q \in 1..n |-> CHOOSE i \in 1..n : pos[i] = q])

StableOrder(M, n) == InverseOf(StablePosition(M, Rank(M, n), n), n)

(* The orders of 1..n: n put at each place of each order of 1..(n - 1).    *)
RECURSIVE IndexPermutations(_)
IndexPermutations(n) ==
    IF n = 0 THEN {<<>>}
    ELSE {Table([i \in 1..n |->
                    IF i < k THEN p[i] ELSE IF i = k THEN n ELSE p[i - 1]]) :
             p \in IndexPermutations(n - 1), k \in 1..n}

Reorder(seq, order) == Table([i \in 1..Len(seq) |-> seq[order[i]]])

SortedBy(seq, M) ==
    IF Consistent(M, Len(seq))
    THEN {Reorder(seq, StableOrder(M, Len(seq)))}
    ELSE {Reorder(seq, p) : p \in IndexPermutations(Len(seq))}

(* slice(0, k)                                                             *)
Slice(seq, k) == SubSeq(seq, 1, IF Len(seq) < k THEN Len(seq) ELSE k)

---------------------------------------------------------------------------
(* generateBusinessSummary, data-processing.ts lines 66-124.               *)

(* salesData.reduce((sum, sale) => sum + (sale.Amount || 0), 0) over the   *)
(* first k rows.                                                           *)
RECURSIVE totalRevenue(_, _)
totalRevenue(sales, k) ==
    IF k = 0 THEN Num(0)
    ELSE Plus(totalRevenue(sales, k - 1), Or(sales[k].Amount, Num(0)))

totalOrders(sales) == Len(sales)

averageOrderValue(sales) ==
    IF totalOrders(sales) > 0
    THEN Div(totalRevenue(sales, Len(sales)), totalOrders(sales))
    ELSE Num(0)

(* The accumulator object of lines 77-81 as its entries in insertion       *)
(* order (the product names of the model are not integer-like keys).       *)
addRevenue(acc, product, amount) ==
    IF \E i \in 1..Len(acc) : acc[i].product = product
    THEN Table([i \in 1..Len(acc) |->
             IF acc[i].product = product
             THEN [acc[i] EXCEPT !.revenue = Plus(Or(acc[i].revenue, Num(0)), amount)]
             ELSE acc[i]])
    ELSE Append(acc, [product |-> product,
                      revenue |-> Plus(Or(Undefined, Num(0)), amount)])

RECURSIVE productRevenue(_, _)
productRevenue(sales, k) ==
    IF k = 0 THEN <<>>
    ELSE addRevenue(productRevenue(sales, k - 1),
                    ToPropertyKey(sales[k].Product),
                    Or(sales[k].Amount, Num(0)))

(* .sort(([, a], [, b]) => b - a)                                          *)
byRevenueDesc(x, y) == Minus(y.revenue, x.revenue)

TopProductsCap == 5

(* The signs the comparator answers on every pair of entries.              *)
revenueComparisons(entries) ==
    Table([i \in 1..Len(entries) |->
              Table([j \in 1..Len(entries) |->
                        Sign(byRevenueDesc(entries[i], entries[j]))])])

(* The arrays a call works on.  The three arguments are the caller's      *)
(* arrays, passed by reference, so what the call writes into them the      *)
(* caller sees.  entries is the array Object.entries returns (line 83)     *)
(* and filtered the one filter returns (line 90); topProducts and          *)
(* lowStockItems are the arrays map returns (lines 86 and 93).  The rows   *)
(* are values: no statement of the function assigns to a property of a     *)
(* row (line 79 assigns to the accumulator, an object of the call).        *)
arraysAtEntry(sales, inventory, reviews) ==
    [salesData |-> sales, inventoryData |-> inventory, reviewData |-> reviews,
     entries |-> <<>>, filtered |-> <<>>,
     topProducts |-> <<>>, lowStockItems |-> <<>>]

(* Lines 77-83: reduce reads salesData into a new accumulator, of which    *)
(* Object.entries builds a new array.                                      *)
entriesOfProductRevenue(arrays) ==
    [arrays EXCEPT !.entries =
        productRevenue(arrays.salesData, Len(arrays.salesData))]

(* Line 84: sort reorders the array it is called on, and returns it.       *)
sortEntries(arrays) ==
    {[arrays EXCEPT !.entries = sorted] :
        sorted \in SortedBy(arrays.entries, revenueComparisons(arrays.entries))}

(* Lines 85-86: slice and map each build a new array.                      *)
sliceEntries(arrays) ==
    [arrays EXCEPT !.topProducts = Slice(arrays.entries, TopProductsCap)]

DefaultMinAlert == 5

(* item.Stock < (item.Min_Alert || 5)                                      *)
isLowStock(item) == LessThan(item.Stock, Or(item.Min_Alert, Num(DefaultMinAlert)))

(* .sort((a, b) => a.Stock - b.Stock)                                      *)
byStockAsc(x, y) == Minus(x.Stock, y.Stock)

LowStockCap == 10

lowStockEntry(item) == [product |-> item.Product, stock |-> item.Stock]

lowStockEntries(sorted) ==
    Table([i \in 1..Len(Slice(sorted, LowStockCap)) |-> lowStockEntry(sorted[i])])

(* The signs the comparator answers on every pair of items.                *)
stockComparisons(items) ==
    Table([i \in 1..Len(items) |->
              Table([j \in 1..Len(items) |->
                        Sign(byStockAsc(items[i], items[j]))])])

(* Line 90: filter reads inventoryData and builds a new array of the rows  *)
(* that pass.                                                              *)
filterInventory(arrays) ==
    [arrays EXCEPT !.filtered = SelectSeq(arrays.inventoryData, isLowStock)]

(* Line 91, were sort called on inventoryData and filter on what it        *)
(* returns.                                                                *)
sortInventoryData(arrays) ==
    {[arrays EXCEPT !.inventoryData = sorted,
                    !.filtered = SelectSeq(sorted, isLowStock)] :
        sorted \in SortedBy(arrays.inventoryData,
                            stockComparisons(arrays.inventoryData))}

(* Line 91: sort reorders the array it is called on, the one filter        *)
(* built, and returns it.                                                  *)
sortFiltered(arrays) ==
    {[arrays EXCEPT !.filtered = sorted] :
        sorted \in SortedBy(arrays.filtered, stockComparisons(arrays.filtered))}

(* Lines 92-93: slice and map each build a new array.                      *)
sliceFiltered(arrays) ==
    [arrays EXCEPT !.lowStockItems = lowStockEntries(arrays.filtered)]

RECURSIVE totalRating(_, _)
totalRating(reviews, k) ==
    IF k = 0 THEN Num(0)
    ELSE Plus(totalRating(reviews, k - 1), Or(reviews[k].Rating, Num(0)))

averageRating(reviews) ==
    IF Len(reviews) > 0
    THEN Div(totalRating(reviews, Len(reviews)), Len(reviews))
    ELSE Num(0)

---------------------------------------------------------------------------
(* The sentiment scorer, lines 99-113.  A review text is a sequence of     *)
(* characters.                                                             *)

Text(chars) == [t |-> "string", c |-> chars]

NoText == [t |-> "undefined", c |-> <<>>]

UpperCase ==
    <<"A", "B", "C", "D", "E", "F", "G", "H", "I", "J", "K", "L", "M",
      "N", "O", "P", "Q", "R", "S", "T", "U", "V", "W", "X", "Y", "Z">>

LowerCase ==
    <<"a", "b", "c", "d", "e", "f", "g", "h", "i", "j", "k", "l", "m",
      "n", "o", "p", "q", "r", "s", "t", "u", "v", "w", "x", "y", "z">>

(* toLowerCase left out: the matching becomes case-sensitive.              *)
keepCase(chars) == chars

toLowerCase(chars) ==
    Table([i \in 1..Len(chars) |->
              IF \E k \in 1..Len(UpperCase) : UpperCase[k] = chars[i]
              THEN LowerCase[CHOOSE k \in 1..Len(UpperCase) : UpperCase[k] = chars[i]]
              ELSE chars[i]])

(* text.includes(word)                                                     *)
includes(text, word) ==
    \E i \in 0..(Len(text) - Len(word)) :
        SubSeq(text, i + 1, i + Len(word)) = word

positiveWords ==
    << <<"g", "o", "o", "d">>,
       <<"g", "r", "e", "a", "t">>,
       <<"e", "x", "c", "e", "l", "l", "e", "n", "t">>,
       <<"a", "m", "a", "z", "i", "n", "g">>,
       <<"l", "o", "v", "e">>,
       <<"p", "e", "r", "f", "e", "c", "t">>,
       <<"w", "o", "n", "d", "e", "r", "f", "u", "l">> >>

negativeWords ==
    << <<"b", "a", "d">>,
       <<"t", "e", "r", "r", "i", "b", "l", "e">>,
       <<"a", "w", "f", "u", "l">>,
       <<"h", "a", "t", "e">>,
       <<"w", "o", "r", "s", "t">>,
       <<"h", "o", "r", "r", "i", "b", "l", "e">>,
       <<"d", "i", "s", "a", "p", "p", "o", "i", "n", "t", "i", "n", "g">> >>

(* positiveWords.filter(word => text.includes(word)).length                *)
positiveCount(text) == Len(SelectSeq(positiveWords, LAMBDA word : includes(text, word)))

(* negativeWords.filter(word => text.includes(word)).length                *)
negativeCount(text) == Len(SelectSeq(negativeWords, LAMBDA word : includes(text, word)))

delta(text) == positiveCount(text) - negativeCount(text)

(* One pass of the forEach body, lines 105-108.                            *)
reviewDelta(review) == delta(toLowerCase(review.Review.c))

RECURSIVE sentimentScore(_, _)
sentimentScore(reviews, k) ==
    IF k = 0 THEN 0
    ELSE sentimentScore(reviews, k - 1) + reviewDelta(reviews[k])

(* Lines 112-113 without Math.max and Math.min.                            *)
unclampedSentiment(score, count) ==
    IF count > 0 THEN Div(Num(score), count) ELSE Num(0)

(* Lines 112-113.                                                          *)
normalizedSentiment(score, count) ==
    IF count > 0
    THEN MathMax(Num(-1), MathMin(Num(1), Div(Num(score), count)))
    ELSE Num(0)

(* review.Review.toLowerCase() raises a TypeError on a row without Review. *)
throwsTypeError(reviews) == \E k \in 1..Len(reviews) : reviews[k].Review.t = "undefined"

NoSummary == [totalOrders |-> -1]

Returned(summary) == [status |-> "returned", summary |-> summary]

Threw == [status |-> "threw", summary |-> NoSummary]

NotCalled == [status |-> "none", summary |-> NoSummary]

(* The arrays as the statements of lines 77-93 leave them, in the order    *)
(* of the code.                                                            *)
arraysAfterCall(sales, inventory, reviews) ==
    {sliceFiltered(low) :
        low \in UNION {sortFiltered(filterInventory(sliceEntries(top))) :
                          top \in sortEntries(entriesOfProductRevenue(
                                      arraysAtEntry(sales, inventory, reviews)))}}

(* What the call returns (lines 115-123) or that it threw (line 105).      *)
returnValue(arrays) ==
    IF throwsTypeError(arrays.reviewData) THEN Threw
    ELSE Returned([totalRevenue |->
                       totalRevenue(arrays.salesData, Len(arrays.salesData)),
                   totalOrders |-> totalOrders(arrays.salesData),
                   averageOrderValue |-> averageOrderValue(arrays.salesData),
                   topProducts |-> arrays.topProducts,
                   lowStockItems |-> arrays.lowStockItems,
                   averageRating |-> averageRating(arrays.reviewData),
                   sentimentScore |->
                       normalizedSentiment(
                           sentimentScore(arrays.reviewData, Len(arrays.reviewData)),
                           Len(arrays.reviewData))])

(* The outcomes of one call.                                               *)
generateBusinessSummary(sales, inventory, reviews) ==
    {returnValue(arrays) : arrays \in arraysAfterCall(sales, inventory, reviews)}

---------------------------------------------------------------------------
(* The schema validators, lines 126-191.                                   *)

(* In, were it to ask for a cell that is not empty.                        *)
isFilled(field, row) == row[field].t # "undefined" /\ row[field] # Str("")

(* field in row                                                            *)
In(field, row) == row[field].t # "undefined"

NoDataError == "No data found in the file"

missingFieldMessages(missing) ==
    Table([i \in 1..Len(missing) |-> "Missing required field: " \o missing[i]])

(* requiredFields.forEach(field => { if (!(field in firstRow)) ... })      *)
missingFieldErrors(firstRow, requiredFields) ==
    missingFieldMessages(SelectSeq(requiredFields, LAMBDA field : ~In(field, firstRow)))

(* if (cell && isNaN(Number(cell))) errors.push(`Row ${index + 1}: ...`)   *)
cellError(cell, row, field) ==
    IF Truthy(cell) /\ ToNumber(cell).t = "NaN"
    THEN <<"Row " \o ToString(row) \o ": " \o field \o " must be a number">>
    ELSE <<>>

(* rowErrors, were Amount looked at before Quantity.                       *)
RECURSIVE rowErrorsAmountFirst(_, _)
rowErrorsAmountFirst(data, k) ==
    IF k = 0 THEN <<>>
    ELSE rowErrorsAmountFirst(data, k - 1)
         \o cellError(data[k].Amount, k, "Amount")
         \o cellError(data[k].Quantity, k, "Quantity")

(* The forEach of lines 143-150 over the first k rows.                     *)
RECURSIVE rowErrors(_, _)
rowErrors(data, k) ==
    IF k = 0 THEN <<>>
    ELSE rowErrors(data, k - 1)
         \o cellError(data[k].Quantity, k, "Quantity")
         \o cellError(data[k].Amount, k, "Amount")

CheckedRows == 5

validation(errors) == [valid |-> Len(errors) = 0, errors |-> errors]

validateSalesData(data) ==
    IF Len(data) = 0 THEN [valid |-> FALSE, errors |-> <<NoDataError>>]
    ELSE validation(missingFieldErrors(data[1], <<"Date", "Product", "Quantity", "Amount">>)
                    \o rowErrors(data, Len(Slice(data, CheckedRows))))

validateInventoryData(data) ==
    IF Len(data) = 0 THEN [valid |-> FALSE, errors |-> <<NoDataError>>]
    ELSE validation(missingFieldErrors(data[1], <<"Product", "Stock", "Price">>))

(* validateReviewData, were the check of lines 178-181 left out.           *)
validateReviewDataWithoutEmptyCheck(data) ==
    IF Len(data) = 0 THEN validation(<<>>)
    ELSE validation(missingFieldErrors(data[1], <<"Date", "Rating", "Review", "Product">>))

validateReviewData(data) ==
    IF Len(data) = 0 THEN [valid |-> FALSE, errors |-> <<NoDataError>>]
    ELSE validation(missingFieldErrors(data[1], <<"Date", "Rating", "Review", "Product">>))

(* The switch of the upload on the kind of the dataset.                    *)
validate(type, data) ==
    CASE type = "sales" -> validateSalesData(data)
      [] type = "inventory" -> validateInventoryData(data)
      [] type = "reviews" -> validateReviewData(data)

NotValidated == [valid |-> FALSE, errors |-> <<>>]

---------------------------------------------------------------------------
(* The decoder parseCsvFile, lines 40-64.  A cell of the file is its text, *)
(* kept both as a string and as its characters.                            *)

CsvCell(s, chars) == [s |-> s, c |-> chars]

Digits == <<"0", "1", "2", "3", "4", "5", "6", "7", "8", "9">>

IsDigit(ch) == \E i \in 1..10 : Digits[i] = ch

DigitValue(ch) == (CHOOSE i \in 1..10 : Digits[i] = ch) - 1

(* The white space and line terminators parseFloat skips and trim strips.  *)
(* A character that has no escape in a TLA+ string is written as its code  *)
(* point.                                                                  *)
WhiteSpace ==
    {" ", "\t", "\n", "\r", "\f", "U+000B", "U+00A0", "U+1680", "U+2000", "U+2001",
     "U+2002", "U+2003", "U+2004", "U+2005", "U+2006", "U+2007", "U+2008",
     "U+2009", "U+200A", "U+2028", "U+2029", "U+202F", "U+205F", "U+3000", "U+FEFF"}

(* The first place from i on that holds no white space.                    *)
RECURSIVE SkipWhiteSpace(_, _)
SkipWhiteSpace(chars, i) ==
    IF i <= Len(chars) /\ chars[i] \in WhiteSpace
    THEN SkipWhiteSpace(chars, i + 1) ELSE i

(* The first place from i on that holds no digit.                          *)
RECURSIVE SkipDigits(_, _)
SkipDigits(chars, i) ==
    IF i <= Len(chars) /\ IsDigit(chars[i]) THEN SkipDigits(chars, i + 1) ELSE i

(* The number the digits of places i .. j-1 write.                         *)
RECURSIVE DigitsValue(_, _, _)
DigitsValue(chars, i, j) ==
    IF j <= i THEN 0 ELSE 10 * DigitsValue(chars, i, j - 1) + DigitValue(chars[j - 1])

RECURSIVE PowerOfTen(_)
PowerOfTen(k) == IF k = 0 THEN 1 ELSE 10 * PowerOfTen(k - 1)

At(chars, i) == IF i <= Len(chars) THEN chars[i] ELSE ""

(* The exponent part that starts at place i, 0 when there is none.         *)
ExponentAt(chars, i) ==
    IF At(chars, i) \notin {"e", "E"} THEN 0
    ELSE LET j == IF At(chars, i + 1) \in {"+", "-"} THEN i + 2 ELSE i + 1
             k == SkipDigits(chars, j)
         IN  IF k = j THEN 0
             ELSE IF At(chars, i + 1) = "-" THEN -DigitsValue(chars, j, k)
                  ELSE DigitsValue(chars, j, k)

Scaled(n, d, e) ==
    IF e >= 0 THEN Fraction(n * PowerOfTen(e), d) ELSE Fraction(n, d * PowerOfTen(-e))

(* parseFloat: the longest prefix, after leading white space, that is a    *)
(* decimal literal; NaN when there is none.  ("Infinity" is not among the  *)
(* texts of the model.)                                                    *)
parseFloat(chars) ==
    LET start == SkipWhiteSpace(chars, 1)
        digits == IF At(chars, start) \in {"+", "-"} THEN start + 1 ELSE start
        sign == IF At(chars, start) = "-" THEN -1 ELSE 1
        point == SkipDigits(chars, digits)
        fraction == IF At(chars, point) = "." THEN point + 1 ELSE point
        stop == SkipDigits(chars, fraction)
    IN  IF point = digits /\ stop = fraction THEN NaN
        ELSE Scaled(sign * (DigitsValue(chars, digits, point) * PowerOfTen(stop - fraction)
                            + DigitsValue(chars, fraction, stop)),
                    PowerOfTen(stop - fraction),
                    ExponentAt(chars, stop))

(* Line 47.                                                                *)
numericColumns ==
    {"Quantity", "Amount", "Stock", "Price", "Rating", "Customer_Age", "Min_Alert"}

(* transform, were every column converted.                                 *)
transformAnyColumn(value, header) ==
    IF parseFloat(value.c).t = "NaN" THEN Str(value.s) ELSE parseFloat(value.c)

(* transform, lines 45-52.                                                 *)
transform(value, header) ==
    IF header \in numericColumns
    THEN IF parseFloat(value.c).t = "NaN" THEN Str(value.s) ELSE parseFloat(value.c)
    ELSE Str(value.s)

(* skipEmptyLines: true (line 44) drops the lines that are the empty       *)
(* string, which the parser reads as one empty cell; a line of delimiters  *)
(* alone has several cells and stays.                                      *)
isEmptyLine(line) == Len(line) = 1 /\ line[1].s = ""

isKeptLine(line) == ~isEmptyLine(line)

(* header: true (line 43): the first line left names the fields.           *)
headerFields(lines) ==
    IF Len(lines) = 0 THEN <<>>
    ELSE Table([j \in 1..Len(lines[1]) |-> lines[1][j].s])

ExtraCells(count) == [t |-> "array", n |-> count, d |-> 1, s |-> ""]

(* The record of one line: its cells under the names of the header, each   *)
(* passed through transform; a short line lacks its last fields, the cells *)
(* beyond the header go to __parsed_extra.                                 *)
decodedRow(line, fields) ==
    [f \in {fields[j] : j \in 1..Len(fields)} \cup {"__parsed_extra"} |->
        IF f = "__parsed_extra"
        THEN IF Len(line) > Len(fields) THEN ExtraCells(Len(line) - Len(fields))
             ELSE Undefined
        ELSE IF \E j \in 1..Len(fields) : j <= Len(line) /\ fields[j] = f
             THEN transform(line[CHOOSE j \in 1..Len(fields) :
                                     j <= Len(line) /\ fields[j] = f], f)
             ELSE Undefined]

decodedRows(lines, fields) ==
    Table([k \in 1..(Len(lines) - 1) |-> decodedRow(lines[k + 1], fields)])

(* results.errors: one warning for every line whose number of cells is not *)
(* that of the header.                                                     *)
RECURSIVE parseWarnings(_, _, _)
parseWarnings(lines, fields, k) ==
    IF k <= 1 THEN <<>>
    ELSE parseWarnings(lines, fields, k - 1) \o
         (IF Len(lines[k]) < Len(fields) THEN <<[code |-> "TooFewFields", row |-> k - 2]>>
          ELSE IF Len(lines[k]) > Len(fields)
               THEN <<[code |-> "TooManyFields", row |-> k - 2]>>
               ELSE <<>>)

(* What the parser hands to complete.                                      *)
parseResults(lines) ==
    [data |-> decodedRows(SelectSeq(lines, isKeptLine),
                          headerFields(SelectSeq(lines, isKeptLine))),
     errors |-> parseWarnings(SelectSeq(lines, isKeptLine),
                              headerFields(SelectSeq(lines, isKeptLine)),
                              Len(SelectSeq(lines, isKeptLine)))]

Pending == [status |-> "pending", value |-> <<>>]

Rejected == [status |-> "rejected", value |-> <<>>]

Resolved(value) == [status |-> "resolved", value |-> value]

(* complete, were the warnings to block.                                   *)
completeUnlessWarnings(results) ==
    IF Len(results.errors) > 0 THEN Rejected ELSE Resolved(results.data)

(* complete, lines 53-58: warn, then resolve with the data.                *)
complete(results) == Resolved(results.data)

---------------------------------------------------------------------------
(* The upload component DataUpload (src/unnamed/part_001).                 *)

Kinds == {"sales", "inventory", "reviews"}

NoData == [defined |-> FALSE, rows |-> <<>>]

NoErrors == [defined |-> FALSE, list |-> <<>>]

(* useState, lines 25-29.                                                  *)
initialUploadState ==
    [k \in Kinds |-> [file |-> "null", status |-> "idle",
                      data |-> NoData, errors |-> NoErrors]]

(* updateUploadState, were the updates merged into the state of the        *)
(* render that created onDrop (here the first) and not into prev.          *)
updateStaleUploadState(state, type, updates) ==
    [initialUploadState EXCEPT ![type] =
        [f \in DOMAIN state[type] |->
            IF f \in DOMAIN updates THEN updates[f] ELSE state[type][f]]]

(* updateUploadState, lines 33-38: the updates are merged into the entry   *)
(* of the kind, the other entries are carried over.                        *)
updateUploadState(state, type, updates) ==
    [state EXCEPT ![type] =
        [f \in DOMAIN state[type] |->
            IF f \in DOMAIN updates THEN updates[f] ELSE state[type][f]]]

titleOf(type) ==
    CASE type = "sales" -> "Sales Data"
      [] type = "inventory" -> "Inventory Data"
      [] type = "reviews" -> "Customer Reviews"

(* Lines 63-76 without the else branch: rows the validator rejects leave   *)
(* the state as it is.                                                     *)
afterValidationWithoutElse(state, type, data, checked) ==
    IF checked.valid
    THEN updateUploadState(state, type,
             [status |-> "success", data |-> [defined |-> TRUE, rows |-> data]])
    ELSE state

(* Lines 63-76: what onDrop stores once the rows are validated.            *)
afterValidation(state, type, data, checked) ==
    IF checked.valid
    THEN updateUploadState(state, type,
             [status |-> "success", data |-> [defined |-> TRUE, rows |-> data]])
    ELSE updateUploadState(state, type,
             [status |-> "error",
              errors |-> [defined |-> TRUE, list |-> checked.errors]])

toastAfterValidation(type, checked) ==
    IF checked.valid THEN titleOf(type) \o " uploaded successfully!"
    ELSE titleOf(type) \o " validation failed"

(* The catch of onDrop, were the validator run on the rows of a file that  *)
(* could not be decoded (none).                                            *)
afterValidationOfNoRows(state, type) ==
    afterValidation(state, type, <<>>, validate(type, <<>>))

(* Lines 77-78: the catch of onDrop.                                       *)
afterParseFailure(state, type) ==
    updateUploadState(state, type,
        [status |-> "error",
         errors |-> [defined |-> TRUE, list |-> <<"Failed to parse CSV file">>]])

(* Lines 175-177.                                                          *)
allUploadsComplete(state) ==
    /\ state["sales"].status = "success"
    /\ state["inventory"].status = "success"
    /\ state["reviews"].status = "success"

NoWrite == [waiting |-> FALSE, summary |-> NoSummary,
            sales |-> <<>>, inventory |-> <<>>, reviews |-> <<>>]

(* Lines 186-203: the summary and the rows handleProceedToAnalysis holds   *)
(* while it awaits addDoc.                                                 *)
writeOf(state, summary) ==
    [waiting |-> TRUE, summary |-> summary,
     sales |-> state["sales"].data.rows,
     inventory |-> state["inventory"].data.rows,
     reviews |-> state["reviews"].data.rows]

(* Lines 206-210: the call of onComplete, with the statuses shown at the   *)
(* time of the call.                                                       *)
onCompleteCall(write, state) ==
    [summary |-> write.summary, sales |-> write.sales,
     inventory |-> write.inventory, reviews |-> write.reviews,
     statuses |-> [k \in Kinds |-> state[k].status]]

---------------------------------------------------------------------------
(* The demo call site, demo-data.ts.  Every Math.random() is a draw r in   *)
(* [0, 1), kept as the fraction r[1]/r[2]; the rows carry the fields the   *)
(* summary reads.                                                          *)

RandomDraws == {<<0, 1>>, <<9, 10>>}

(* Math.floor(Math.random() * k)                                           *)
randomIndex(r, k) == (r[1] * k) \div r[2]

(* The product list of lines 4, 34 and 49, cut to its first                *)
(* MaxDemoProducts names.                                                  *)
demoProductList ==
    <<"Blue Kurta", "Red Saree", "Cotton Shirt", "Denim Jeans", "Silk Dupatta",
      "Woolen Shawl">>

demoProducts == Slice(demoProductList, MaxDemoProducts)

(* Lines 15-24: the row pushed for the draws of product, quantity and      *)
(* basePrice.                                                              *)
demoSaleRow(rProduct, rQuantity, rPrice) ==
    [Date |-> Str("2024-08-01"),
     Product |-> Str(demoProducts[randomIndex(rProduct, Len(demoProducts)) + 1]),
     Quantity |-> Num(randomIndex(rQuantity, 5) + 1),
     Amount |-> Num((randomIndex(rPrice, 2000) + 500) * (randomIndex(rQuantity, 5) + 1))]

(* The arrays generateDemoSalesData can return (the loop of line 11 runs   *)
(* MaxDemoSales times).                                                    *)
generateDemoSalesData ==
    [1..MaxDemoSales ->
        {demoSaleRow(p, q, b) : p \in RandomDraws, q \in RandomDraws, b \in RandomDraws}]

(* Lines 38-45: one row per product.                                       *)
demoInventoryRow(product, rStock, rAlert) ==
    [Product |-> Str(product),
     Stock |-> Num(randomIndex(rStock, 50) + 5),
     Price |-> Num(500),
     Min_Alert |-> Num(randomIndex(rAlert, 10) + 5)]

generateDemoInventoryData ==
    {Table([i \in 1..Len(demoProducts) |->
               demoInventoryRow(demoProducts[i], d[i][1], d[i][2])]) :
        d \in [1..Len(demoProducts) -> RandomDraws \X RandomDraws]}

(* Lines 52-59.                                                            *)
positiveReviews ==
    << <<"E", "x", "c", "e", "l", "l", "e", "n", "t", " ", "q", "u", "a",
         "l", "i", "t", "y", " ", "a", "n", "d", " ", "f", "a", "s", "t",
         " ", "d", "e", "l", "i", "v", "e", "r", "y", "!">>,
       <<"G", "r", "e", "a", "t", " ", "p", "r", "o", "d", "u", "c", "t",
         ",", " ", "h", "i", "g", "h", "l", "y", " ", "r", "e", "c", "o",
         "m", "m", "e", "n", "d", "e", "d">>,
       <<"G", "o", "o", "d", " ", "v", "a", "l", "u", "e", " ", "f", "o",
         "r", " ", "m", "o", "n", "e", "y">>,
       <<"B", "e", "a", "u", "t", "i", "f", "u", "l", " ", "d", "e", "s",
         "i", "g", "n", " ", "a", "n", "d", " ", "c", "o", "m", "f", "o",
         "r", "t", "a", "b", "l", "e", " ", "f", "i", "t">>,
       <<"A", "m", "a", "z", "i", "n", "g", " ", "c", "u", "s", "t", "o",
         "m", "e", "r", " ", "s", "e", "r", "v", "i", "c", "e">>,
       <<"P", "e", "r", "f", "e", "c", "t", " ", "f", "o", "r", " ", "f",
         "e", "s", "t", "i", "v", "e", " ", "o", "c", "c", "a", "s", "i",
         "o", "n", "s">> >>

(* Lines 61-68.                                                            *)
negativeReviews ==
    << <<"P", "r", "o", "d", "u", "c", "t", " ", "q", "u", "a", "l", "i",
         "t", "y", " ", "c", "o", "u", "l", "d", " ", "b", "e", " ", "b",
         "e", "t", "t", "e", "r">>,
       <<"D", "e", "l", "i", "v", "e", "r", "y", " ", "w", "a", "s", " ",
         "d", "e", "l", "a", "y", "e", "d">>,
       <<"N", "o", "t", " ", "a", "s", " ", "s", "h", "o", "w", "n", " ",
         "i", "n", " ", "p", "i", "c", "t", "u", "r", "e", "s">>,
       <<"E", "x", "p", "e", "n", "s", "i", "v", "e", " ", "f", "o", "r",
         " ", "t", "h", "e", " ", "q", "u", "a", "l", "i", "t", "y">>,
       <<"S", "i", "z", "e", " ", "w", "a", "s", " ", "n", "o", "t", " ",
         "a", "c", "c", "u", "r", "a", "t", "e">>,
       <<"C", "u", "s", "t", "o", "m", "e", "r", " ", "s", "u", "p", "p",
         "o", "r", "t", " ", "n", "e", "e", "d", "s", " ", "i", "m", "p",
         "r", "o", "v", "e", "m", "e", "n", "t">> >>

(* Lines 77-86: the row pushed for the draws of rating and text.           *)
demoReviewRow(rRating, rText) ==
    [Date |-> Str("2024-08-01"),
     Rating |-> Num(randomIndex(rRating, 5) + 1),
     Review |-> Text(IF randomIndex(rRating, 5) + 1 >= 4
                     THEN positiveReviews[randomIndex(rText, Len(positiveReviews)) + 1]
                     ELSE negativeReviews[randomIndex(rText, Len(negativeReviews)) + 1]),
     Product |-> Str(demoProducts[1])]

(* The arrays generateDemoReviewData can return (the loop of line 73 runs  *)
(* MaxDemoReviews times).                                                  *)
generateDemoReviewData ==
    [1..MaxDemoReviews -> {demoReviewRow(r, t) : r \in RandomDraws, t \in RandomDraws}]

(* getDemoBusinessSummary, lines 93-137.                                   *)

(* sales.reduce((sum, sale) => sum + sale.Amount, 0) over the first k rows. *)
RECURSIVE demoTotalRevenue(_, _)
demoTotalRevenue(sales, k) ==
    IF k = 0 THEN Num(0)
    ELSE Plus(demoTotalRevenue(sales, k - 1), sales[k].Amount)

(* totalRevenue / totalOrders, line 103: the array is never empty.         *)
demoAverageOrderValue(sales) == Div(demoTotalRevenue(sales, Len(sales)), Len(sales))

RECURSIVE demoProductRevenue(_, _)
demoProductRevenue(sales, k) ==
    IF k = 0 THEN <<>>
    ELSE addRevenue(demoProductRevenue(sales, k - 1),
                    ToPropertyKey(sales[k].Product),
                    sales[k].Amount)

DemoTopProductsCap == 5

(* The outcomes of lines 110-113.                                          *)
demoTopProducts(sales) ==
    {Slice(sorted, DemoTopProductsCap) :
        sorted \in SortedBy(demoProductRevenue(sales, Len(sales)),
                            revenueComparisons(demoProductRevenue(sales, Len(sales))))}

(* item.Stock < item.Min_Alert!                                            *)
isDemoLowStock(item) == LessThan(item.Stock, item.Min_Alert)

DemoLowStockCap == 5

(* The outcomes of lines 115-119.                                          *)
demoLowStockItems(inventory) ==
    {Table([i \in 1..Len(Slice(sorted, DemoLowStockCap)) |-> lowStockEntry(sorted[i])]) :
        sorted \in SortedBy(SelectSeq(inventory, isDemoLowStock),
                            stockComparisons(SelectSeq(inventory, isDemoLowStock)))}

RECURSIVE demoTotalRating(_, _)
demoTotalRating(reviews, k) ==
    IF k = 0 THEN Num(0)
    ELSE Plus(demoTotalRating(reviews, k - 1), reviews[k].Rating)

(* Line 121.                                                               *)
demoAverageRating(reviews) == Div(demoTotalRating(reviews, Len(reviews)), Len(reviews))

(* sentimentScore: 0.3, line 130.                                          *)
demoSentimentScore == Fraction(3, 10)

(* The summaries getDemoBusinessSummary can return with the generated      *)
(* arrays sales, inventory and reviews.                                    *)
getDemoBusinessSummary(sales, inventory, reviews) ==
    {[totalRevenue |-> demoTotalRevenue(sales, Len(sales)),
      totalOrders |-> Len(sales),
      averageOrderValue |-> demoAverageOrderValue(sales),
      topProducts |-> top,
      lowStockItems |-> low,
      averageRating |-> demoAverageRating(reviews),
      sentimentScore |-> demoSentimentScore] :
        top \in demoTopProducts(sales), low \in demoLowStockItems(inventory)}

---------------------------------------------------------------------------
(* The chat component, ChatInterface.tsx.  A text is a sequence of         *)
(* characters; queryGemini is outside the sources: its promise resolves    *)
(* with a response or rejects.                                             *)

RECURSIVE trimStart(_)
trimStart(chars) ==
    IF chars # <<>> /\ Head(chars) \in WhiteSpace THEN trimStart(Tail(chars)) ELSE chars

RECURSIVE trimEnd(_)
trimEnd(chars) ==
    IF chars # <<>> /\ chars[Len(chars)] \in WhiteSpace
    THEN trimEnd(SubSeq(chars, 1, Len(chars) - 1))
    ELSE chars

(* inputValue.trim()                                                       *)
trim(chars) == trimEnd(trimStart(chars))

(* Line 76 with inputValue in place of inputValue.trim().                  *)
returnsEarlyUntrimmed(input, loading) == input = <<>> \/ loading

(* Line 76: if (!inputValue.trim() || isLoading) return;                   *)
returnsEarly(input, loading) == trim(input) = <<>> \/ loading

(* Lines 47-70; the text of the welcome is kept as its first word.         *)
welcomeMessage ==
    [id |-> "welcome", type |-> "ai", content |-> <<"W", "e", "l", "c", "o", "m", "e">>]

(* Lines 78-83.                                                            *)
userMessage(input) == [id |-> "now", type |-> "user", content |-> input]

(* Lines 102-108.                                                          *)
aiMessage(response) == [id |-> "now+1", type |-> "ai", content |-> response.analysis]

apology ==
    <<"I", " ", "a", "p", "o", "l", "o", "g", "i", "z", "e", ",", " ",
      "b", "u", "t", " ", "I", "'", "m", " ", "e", "x", "p", "e", "r",
      "i", "e", "n", "c", "i", "n", "g", " ", "t", "e", "c", "h", "n",
      "i", "c", "a", "l", " ", "d", "i", "f", "f", "i", "c", "u", "l",
      "t", "i", "e", "s", ".", " ", "P", "l", "e", "a", "s", "e", " ",
      "t", "r", "y", " ", "y", "o", "u", "r", " ", "q", "u", "e", "s",
      "t", "i", "o", "n", " ", "a", "g", "a", "i", "n", ".">>

(* Lines 116-121.                                                          *)
errorMessage == [id |-> "now+1", type |-> "ai", content |-> apology]

NoQuery == [waiting |-> FALSE, query |-> <<>>]

(* Line 100: the query is the inputValue of the render that sent it.       *)
queryOf(input) == [waiting |-> TRUE, query |-> input]

(* Lines 141-148, the second suggestion.                                   *)
suggestionButtons ==
    << <<"W", "h", "i", "c", "h", " ", "p", "r", "o", "d", "u", "c", "t",
         "s", " ", "s", "h", "o", "u", "l", "d", " ", "I", " ", "r", "e",
         "s", "t", "o", "c", "k", " ", "f", "i", "r", "s", "t", "?">> >>

(* What a user types into the input.                                       *)
TypedTexts ==
    {<<>>, <<" ">>, <<" ", "\t">>, <<"S", "a", "l", "e", "s", "?">>,
     <<" ", "W", "h", "y", "?", " ">>}

(* What queryGemini answers.                                               *)
GeminiResponses ==
    {[analysis |-> <<"S", "a", "l", "e", "s", " ", "r", "o", "s", "e">>],
     [analysis |-> <<"R", "e", "s", "t", "o", "c", "k">>]}

(* The component is not shown.                                             *)
ChatIdle ==
    /\ messages = <<>>
    /\ inputValue = <<>>
    /\ isLoading = FALSE
    /\ isTyping = FALSE
    /\ pendingQuery = NoQuery
    /\ sendCount = MaxSends

(* The component after its first render and the effect of lines 45-73.     *)
ChatMounted ==
    /\ messages = <<welcomeMessage>>
    /\ inputValue = <<>>
    /\ isLoading = FALSE
    /\ isTyping = FALSE
    /\ pendingQuery = NoQuery
    /\ sendCount = 0

---------------------------------------------------------------------------
(* The rows the calls are made on.  A cell of a numeric column is a number,*)
(* the empty text, a text that is no number, or absent.                    *)

SaleRow(p, a) ==
    [Date |-> Str("2024-08-01"), Product |-> p, Quantity |-> Num(2), Amount |-> a]

ShortSaleRow ==
    [Date |-> Str("2024-08-02"), Product |-> Undefined,
     Quantity |-> Undefined, Amount |-> Undefined]

SaleRows ==
    {SaleRow(p, a) : p \in {Str("A"), Str("B")},
                     a \in {Num(100), Num(300), Num(50), Str(""), Str("N/A"), Undefined}}
    \cup {ShortSaleRow}

(* The rows of the longer sales files.                                     *)
UploadedSaleRows ==
    {SaleRow(Str("A"), Num(100)), SaleRow(Str("B"), Num(300)),
     SaleRow(Str("A"), Str("N/A")), SaleRow(Str("B"), Undefined)}

InventoryRow(p, s, m) ==
    [Product |-> p, Stock |-> s, Price |-> Num(10), Min_Alert |-> m]

(* The Stock and Min_Alert cells of an inventory row.                      *)
StockAlertCells ==
    {<<Num(2), Num(5)>>, <<Num(10), Num(5)>>, <<Num(3), Num(0)>>,
     <<Num(10), Num(12)>>, <<Num(3), Undefined>>, <<Num(10), Undefined>>,
     <<Str(""), Undefined>>, <<Str("N/A"), Num(5)>>, <<Str(""), Str("none")>>,
     <<Num(2), Str("")>>, <<Undefined, Num(5)>>}

CapStockAlertCells == {<<Num(2), Undefined>>, <<Num(3), Undefined>>}

(* A Stock and a Min_Alert the decoder leaves as text: the row passes the  *)
(* filter of line 90, "N/A" < "none" being a comparison of strings, and    *)
(* a.Stock - b.Stock is NaN against every row.                             *)
TextStockAlertCells == {<<Str("N/A"), Str("none")>>}

ProductNames ==
    <<"P1", "P2", "P3", "P4", "P5", "P6", "P7", "P8", "P9", "P10", "P11", "P12", "P13">>

ProductName(i) == Str(ProductNames[i])

(* Inventories of n rows, one product per row.                             *)
Inventories(n, cells) ==
    {Table([i \in 1..n |-> InventoryRow(ProductName(i), c[i][1], c[i][2])]) :
        c \in [1..n -> cells]}

ReviewRow(r, t) ==
    [Date |-> Str("2024-08-03"), Rating |-> r, Review |-> t, Product |-> Str("A")]

ReviewTexts ==
    {Text(<<>>),
     Text(<<"G", "r", "e", "a", "t">>),
     Text(<<"g", "o", "o", "d", " ", "g", "o", "o", "d">>),
     Text(<<"b", "a", "d", "l", "y">>),
     Text(<<"G", "O", "O", "D", " ", "g", "r", "e", "a", "t", " ", "L", "O", "V", "E">>),
     Text(<<"b", "a", "d", " ", "a", "w", "f", "u", "l">>),
     Text(<<"g", "o", "o", "d", " ", "b", "a", "d">>),
     Text(<<"W", "o", "r", "s", "t", ".", " ", "H", "a", "t", "e", " ", "i", "t">>)}

PlainText == Text(<<"o", "k">>)

ReviewRows ==
    {ReviewRow(Num(4), t) : t \in ReviewTexts}
    \cup {ReviewRow(r, PlainText) : r \in {Num(5), Num(2), Str(""), Str("N/A"), Undefined}}
    \cup {ReviewRow(Num(3), NoText)}

SeqsUpTo(S, n) == UNION {[1..k -> S] : k \in 0..n}

BaseSales == {<<>>, <<SaleRow(Str("A"), Num(100))>>}

BaseInventory == {<<>>, <<InventoryRow(ProductName(1), Num(2), Num(5))>>}

BaseReviews == {<<>>, <<ReviewRow(Num(4), PlainText)>>}

CsvHeader ==
    <<CsvCell("Date", <<"D", "a", "t", "e">>),
       CsvCell("Product", <<"P", "r", "o", "d", "u", "c", "t">>),
       CsvCell("Quantity", <<"Q", "u", "a", "n", "t", "i", "t", "y">>),
       CsvCell("Amount", <<"A", "m", "o", "u", "n", "t">>)>>

(* The lines of the files: the row of the round trip, an empty line, a    *)
(* line of delimiters alone, texts that are no numbers or start like one,  *)
(* a short line, a long line, a negative number and a grouped one.         *)
CsvLines ==
    {<<CsvCell("2024-08-01", <<"2", "0", "2", "4", "-", "0", "8", "-", "0", "1">>),
       CsvCell("Kurta", <<"K", "u", "r", "t", "a">>),
       CsvCell("2", <<"2">>),
       CsvCell("1000", <<"1", "0", "0", "0">>)>>,
     <<CsvCell("", <<>>)>>,
     <<CsvCell("", <<>>),
       CsvCell("", <<>>),
       CsvCell("", <<>>),
       CsvCell("", <<>>)>>,
     <<CsvCell("2024-08-02", <<"2", "0", "2", "4", "-", "0", "8", "-", "0", "2">>),
       CsvCell("1000", <<"1", "0", "0", "0">>),
       CsvCell("N/A", <<"N", "/", "A">>),
       CsvCell("12abc", <<"1", "2", "a", "b", "c">>)>>,
     <<CsvCell("2024-08-03", <<"2", "0", "2", "4", "-", "0", "8", "-", "0", "3">>),
       CsvCell("Saree", <<"S", "a", "r", "e", "e">>)>>,
     <<CsvCell("2024-08-04", <<"2", "0", "2", "4", "-", "0", "8", "-", "0", "4">>),
       CsvCell("Saree", <<"S", "a", "r", "e", "e">>),
       CsvCell("1.5", <<"1", ".", "5">>),
       CsvCell("1e3", <<"1", "e", "3">>),
       CsvCell("extra", <<"e", "x", "t", "r", "a">>)>>,
     <<CsvCell("2024-08-05", <<"2", "0", "2", "4", "-", "0", "8", "-", "0", "5">>),
       CsvCell("Dupatta", <<"D", "u", "p", "a", "t", "t", "a">>),
       CsvCell("-3", <<"-", "3">>),
       CsvCell("1,000", <<"1", ",", "0", "0", "0">>)>>}

(* The files dropped on the zone of each kind, with the rows parseCsvFile  *)
(* resolves with: a file the validator accepts, one it refuses, one that   *)
(* cannot be read, and for the reviews an accepted file whose second row   *)
(* has no Review.                                                          *)
UploadFile(name, readable, data) == [name |-> name, readable |-> readable, data |-> data]

UploadFiles(type) ==
    CASE type = "sales" ->
           {UploadFile("sales.csv", TRUE, <<SaleRow(Str("A"), Num(100))>>),
            UploadFile("sales-short.csv", TRUE, <<ShortSaleRow>>),
            UploadFile("sales.bin", FALSE, <<>>)}
      [] type = "inventory" ->
           {UploadFile("inventory.csv", TRUE,
                       <<InventoryRow(ProductName(1), Num(2), Num(5))>>),
            UploadFile("inventory-empty.csv", TRUE, <<>>),
            UploadFile("inventory.bin", FALSE, <<>>)}
      [] type = "reviews" ->
           {UploadFile("reviews.csv", TRUE, <<ReviewRow(Num(4), PlainText)>>),
            UploadFile("reviews-norating.csv", TRUE, <<ReviewRow(Undefined, PlainText)>>),
            UploadFile("reviews.bin", FALSE, <<>>),
            UploadFile("reviews-ragged.csv", TRUE,
                       <<ReviewRow(Num(4), PlainText), ReviewRow(Num(3), NoText)>>)}

(* The rows handed to validateSalesData: a complete row, a row with two    *)
(* texts that are no numbers, a row with a 0 and an empty cell, a row      *)
(* without Date and Amount, a row whose Amount is a blank.                 *)
ValidatedSaleRows ==
    {SaleRow(Str("A"), Num(100)),
     [Date |-> Str("2024-08-01"), Product |-> Str("A"),
      Quantity |-> Str("N/A"), Amount |-> Str("abc")],
     [Date |-> Str("2024-08-01"), Product |-> Str("B"),
      Quantity |-> Num(0), Amount |-> Str("")],
     [Date |-> Undefined, Product |-> Str("A"),
      Quantity |-> Str("N/A"), Amount |-> Undefined],
     SaleRow(Str("B"), Str(" "))}

Cell(present, value) == IF present THEN value ELSE Undefined

(* Inventory rows with every choice of the required fields present.        *)
ValidatedInventoryRows ==
    {[Product |-> Cell(p, Str("P1")), Stock |-> Cell(s, Num(2)),
      Price |-> Cell(c, Num(10)), Min_Alert |-> Undefined] :
        p \in BOOLEAN, s \in BOOLEAN, c \in BOOLEAN}

(* Review rows with every choice of the required fields present.           *)
ValidatedReviewRows ==
    {[Date |-> Cell(d, Str("2024-08-03")), Rating |-> Cell(r, Num(4)),
      Review |-> IF t THEN PlainText ELSE NoText, Product |-> Cell(p, Str("A"))] :
        d \in BOOLEAN, r \in BOOLEAN, t \in BOOLEAN, p \in BOOLEAN}

---------------------------------------------------------------------------
(* The state machine: the arguments are drawn, then the call is made.      *)

SummaryIdle ==
    /\ salesData = <<>>
    /\ inventoryData = <<>>
    /\ reviewData = <<>>
    /\ result = NotCalled
    /\ again = NotCalled

ValidatorsIdle ==
    /\ dataset = "none"
    /\ fileRows = <<>>
    /\ validationResult = NotValidated

DecoderIdle ==
    /\ csvFile = [readable |-> FALSE, lines |-> <<>>]
    /\ promise = [status |-> "none", value |-> <<>>]
    /\ warned = FALSE

(* The component as it is mounted.                                         *)
UploadMounted ==
    /\ uploadState = initialUploadState
    /\ isProcessing = FALSE
    /\ inFlight = {}
    /\ dropCount = 0
    /\ pendingWrite = NoWrite
    /\ handed = <<>>
    /\ lastToast = ""

(* No file is ever dropped: the drop counter is past its bound.            *)
UploadIdle ==
    /\ uploadState = initialUploadState
    /\ isProcessing = FALSE
    /\ inFlight = {}
    /\ dropCount = MaxDrops
    /\ pendingWrite = NoWrite
    /\ handed = <<>>
    /\ lastToast = ""

InitSales ==
    /\ salesData \in SeqsUpTo(SaleRows, MaxSales)
    /\ inventoryData \in BaseInventory
    /\ reviewData \in BaseReviews
    /\ result = NotCalled
    /\ again = NotCalled
    /\ ValidatorsIdle
    /\ DecoderIdle
    /\ UploadIdle
    /\ ChatIdle

(* Sales files that validateSalesData accepts, as the upload hands them on. *)
InitUploadedSales ==
    /\ salesData \in {s \in SeqsUpTo(UploadedSaleRows, MaxUploadedSales) :
                          validateSalesData(s).valid}
    /\ inventoryData \in {i \in BaseInventory : validateInventoryData(i).valid}
    /\ reviewData \in {r \in BaseReviews : validateReviewData(r).valid}
    /\ result = NotCalled
    /\ again = NotCalled
    /\ ValidatorsIdle
    /\ DecoderIdle
    /\ UploadIdle
    /\ ChatIdle

InitInventory ==
    /\ salesData \in BaseSales
    /\ inventoryData \in UNION {Inventories(n, StockAlertCells) : n \in 0..MaxInventory}
    /\ reviewData \in BaseReviews
    /\ result = NotCalled
    /\ again = NotCalled
    /\ ValidatorsIdle
    /\ DecoderIdle
    /\ UploadIdle
    /\ ChatIdle

(* The inventories of InitInventory, with one sale and one review.  On     *)
(* these the comparator of line 91 is consistent, so that the language     *)
(* fixes the order of the sort.                                            *)
InitTwice ==
    /\ salesData = <<SaleRow(Str("A"), Num(100))>>
    /\ inventoryData \in UNION {Inventories(n, StockAlertCells) : n \in 0..MaxInventory}
    /\ reviewData = <<ReviewRow(Num(4), PlainText)>>
    /\ result = NotCalled
    /\ again = NotCalled
    /\ ValidatorsIdle
    /\ DecoderIdle
    /\ UploadIdle
    /\ ChatIdle

(* Rows of stock 3 and rows of text stock, in any order.                   *)
CapTextRows(n) == Inventories(n, {<<Num(3), Undefined>>} \cup TextStockAlertCells)

(* CapTextRows, and a last row of stock 2: with the three together the     *)
(* comparator of line 91 is not consistent.                                *)
CapTextRowsThenTwo(n) ==
    {Append(inventory, InventoryRow(ProductName(n + 1), Num(2), Undefined)) :
        inventory \in CapTextRows(n)}

(* Inventories long enough for the slice of line 92 to cut, of numeric     *)
(* Stock; and inventories where Stock may be text, longer than the 5       *)
(* entries of C4.                                                          *)
InitCapInventory ==
    /\ \/ /\ salesData \in BaseSales
          /\ inventoryData \in UNION {Inventories(n, CapStockAlertCells) :
                                         n \in 0..MaxCapInventory}
          /\ reviewData \in BaseReviews
       \/ /\ salesData = <<>>
          /\ inventoryData \in
                 UNION ({CapTextRows(n) : n \in 0..MaxCapTextInventory}
                        \cup {CapTextRowsThenTwo(n) :
                                  n \in 0..(MaxCapTextInventory - 1)})
          /\ reviewData = <<>>
    /\ result = NotCalled
    /\ again = NotCalled
    /\ ValidatorsIdle
    /\ DecoderIdle
    /\ UploadIdle
    /\ ChatIdle

InitReviews ==
    /\ salesData \in BaseSales
    /\ inventoryData \in BaseInventory
    /\ reviewData \in SeqsUpTo(ReviewRows, MaxReviews)
    /\ result = NotCalled
    /\ again = NotCalled
    /\ ValidatorsIdle
    /\ DecoderIdle
    /\ UploadIdle
    /\ ChatIdle

(* A validator is handed the rows of one dataset.                          *)
InitValidators ==
    /\ SummaryIdle
    /\ \/ /\ dataset = "sales"
          /\ fileRows \in SeqsUpTo(ValidatedSaleRows, MaxValidatedSales)
       \/ /\ dataset = "inventory"
          /\ fileRows \in SeqsUpTo(ValidatedInventoryRows, MaxValidatedRows)
       \/ /\ dataset = "reviews"
          /\ fileRows \in SeqsUpTo(ValidatedReviewRows, MaxValidatedRows)
    /\ validationResult = NotValidated
    /\ DecoderIdle
    /\ UploadIdle
    /\ ChatIdle

(* parseCsvFile is called on a file: a header line and some lines, or a    *)
(* file that cannot be read.                                               *)
InitDecoder ==
    /\ SummaryIdle
    /\ ValidatorsIdle
    /\ csvFile \in {[readable |-> r, lines |-> <<CsvHeader>> \o body] :
                        r \in BOOLEAN, body \in SeqsUpTo(CsvLines, MaxCsvRows)}
    /\ promise = Pending
    /\ warned = FALSE
    /\ UploadIdle
    /\ ChatIdle

(* The upload component is mounted.                                        *)
InitUpload ==
    /\ SummaryIdle
    /\ ValidatorsIdle
    /\ DecoderIdle
    /\ UploadMounted
    /\ ChatIdle

(* Before "Load Demo Data" is clicked.                                     *)
InitDemo ==
    /\ SummaryIdle
    /\ ValidatorsIdle
    /\ DecoderIdle
    /\ UploadIdle
    /\ ChatIdle

(* The chat is shown.                                                      *)
InitChat ==
    /\ SummaryIdle
    /\ ValidatorsIdle
    /\ DecoderIdle
    /\ UploadIdle
    /\ ChatMounted

Init ==
    InitSales \/ InitInventory \/ InitReviews \/ InitValidators \/ InitDecoder
    \/ InitUpload \/ InitDemo \/ InitChat \/ InitTwice

Call ==
    /\ result.status = "none"
    /\ dataset = "none"
    /\ \E arrays \in arraysAfterCall(salesData, inventoryData, reviewData) :
           /\ result' = returnValue(arrays)
           /\ salesData' = arrays.salesData
           /\ inventoryData' = arrays.inventoryData
           /\ reviewData' = arrays.reviewData
    /\ UNCHANGED <<again, validatorVars, decoderVars, uploadVars, chatVars>>

(* A call made between the two.  It is passed the caller's own array       *)
(* where passed says so and an empty array elsewhere, and the caller       *)
(* drops what it returns: what the call leaves behind is what it wrote     *)
(* into the arrays it was passed.  (The module has no binding outside its  *)
(* functions, and each call binds its locals anew, lines 72-103.)          *)
CallBetween ==
    /\ result.status # "none"
    /\ again.status = "none"
    /\ \E passed \in [{"salesData", "inventoryData", "reviewData"} -> BOOLEAN] :
           \E arrays \in arraysAfterCall(
                             IF passed["salesData"] THEN salesData ELSE <<>>,
                             IF passed["inventoryData"] THEN inventoryData ELSE <<>>,
                             IF passed["reviewData"] THEN reviewData ELSE <<>>) :
               /\ salesData' =
                      IF passed["salesData"] THEN arrays.salesData ELSE salesData
               /\ inventoryData' =
                      IF passed["inventoryData"] THEN arrays.inventoryData
                      ELSE inventoryData
               /\ reviewData' =
                      IF passed["reviewData"] THEN arrays.reviewData ELSE reviewData
    /\ UNCHANGED <<result, again, validatorVars, decoderVars, uploadVars, chatVars>>

(* The second call, on the arrays as the calls before it left them.        *)
CallAgain ==
    /\ result.status # "none"
    /\ again.status = "none"
    /\ \E arrays \in arraysAfterCall(salesData, inventoryData, reviewData) :
           /\ again' = returnValue(arrays)
           /\ salesData' = arrays.salesData
           /\ inventoryData' = arrays.inventoryData
           /\ reviewData' = arrays.reviewData
    /\ UNCHANGED <<result, validatorVars, decoderVars, uploadVars, chatVars>>

Validate ==
    /\ dataset # "none"
    /\ validationResult = NotValidated
    /\ validationResult' = validate(dataset, fileRows)
    /\ UNCHANGED <<dataset, fileRows>>
    /\ UNCHANGED <<summaryVars, decoderVars, uploadVars, chatVars>>

(* The parser calls complete (lines 53-58).                                *)
ParseComplete ==
    /\ promise = Pending
    /\ csvFile.readable
    /\ warned' = (Len(parseResults(csvFile.lines).errors) > 0)
    /\ promise' = complete(parseResults(csvFile.lines))
    /\ UNCHANGED <<csvFile, summaryVars, validatorVars, uploadVars, chatVars>>

(* The parser calls error (lines 59-61).                                   *)
ParseError ==
    /\ promise = Pending
    /\ ~csvFile.readable
    /\ promise' = Rejected
    /\ UNCHANGED <<csvFile, warned, summaryVars, validatorVars, uploadVars, chatVars>>

(* handleLoadDemo, DemoLoader.tsx lines 14-17: the summary and the data    *)
(* of getDemoBusinessSummary are handed to onLoadDemo together.            *)
handleLoadDemo ==
    /\ result.status = "none"
    /\ salesData = <<>> /\ inventoryData = <<>> /\ reviewData = <<>>
    /\ dataset = "none"
    /\ csvFile.readable = FALSE /\ promise.status = "none"
    /\ dropCount = MaxDrops
    /\ \E sales \in generateDemoSalesData,
          inventory \in generateDemoInventoryData,
          reviews \in generateDemoReviewData :
           /\ salesData' = sales
           /\ inventoryData' = inventory
           /\ reviewData' = reviews
           /\ result' \in {Returned(summary) :
                               summary \in getDemoBusinessSummary(sales, inventory, reviews)}
    /\ UNCHANGED <<again, validatorVars, decoderVars, uploadVars, chatVars>>

outsideUpload == <<summaryVars, validatorVars, decoderVars, chatVars>>

(* onDrop up to its await (lines 41-48): the file is stored and the status *)
(* is 'uploading'.                                                         *)
Drop(type, file) ==
    /\ dropCount < MaxDrops
    /\ uploadState' = updateUploadState(uploadState, type,
                           [file |-> file.name, status |-> "uploading"])
    /\ inFlight' = inFlight \cup {[type |-> type, file |-> file, id |-> dropCount + 1]}
    /\ dropCount' = dropCount + 1
    /\ UNCHANGED <<isProcessing, pendingWrite, handed, lastToast, outsideUpload>>

(* onDrop with no accepted file (lines 42-43) returns at once.             *)
DropNothing ==
    /\ dropCount < MaxDrops
    /\ UNCHANGED vars

(* onDrop after parseCsvFile resolved (lines 48-76): validate and store.   *)
DropParsed(drop) ==
    /\ drop.file.readable
    /\ uploadState' = afterValidation(uploadState, drop.type, drop.file.data,
                                      validate(drop.type, drop.file.data))
    /\ lastToast' = toastAfterValidation(drop.type, validate(drop.type, drop.file.data))
    /\ inFlight' = inFlight \ {drop}
    /\ UNCHANGED <<isProcessing, dropCount, pendingWrite, handed, outsideUpload>>

(* onDrop after parseCsvFile rejected (lines 77-84).                       *)
DropParseFailed(drop) ==
    /\ ~drop.file.readable
    /\ uploadState' = afterParseFailure(uploadState, drop.type)
    /\ lastToast' = "Upload failed"
    /\ inFlight' = inFlight \ {drop}
    /\ UNCHANGED <<isProcessing, dropCount, pendingWrite, handed, outsideUpload>>

(* handleProceedToAnalysis up to its await (lines 179-203).  The button is *)
(* shown when all uploads are complete and is disabled while processing.   *)
Proceed ==
    /\ allUploadsComplete(uploadState)
    /\ ~isProcessing
    /\ Len(handed) < MaxProceeds
    /\ \E outcome \in generateBusinessSummary(uploadState["sales"].data.rows,
                                               uploadState["inventory"].data.rows,
                                               uploadState["reviews"].data.rows) :
          IF outcome.status = "threw"
          THEN /\ lastToast' = "Processing Error"
               /\ UNCHANGED <<isProcessing, pendingWrite>>
          ELSE /\ isProcessing' = TRUE
               /\ pendingWrite' = writeOf(uploadState, outcome.summary)
               /\ UNCHANGED lastToast
    /\ UNCHANGED <<uploadState, inFlight, dropCount, handed, outsideUpload>>

(* addDoc resolved (lines 203-215, 223-225): onComplete is called.  The    *)
(* toast title is kept without its leading pictograph.                     *)
WriteDone ==
    /\ pendingWrite.waiting
    /\ handed' = Append(handed, onCompleteCall(pendingWrite, uploadState))
    /\ lastToast' = "Data Analysis Ready!"
    /\ isProcessing' = FALSE
    /\ pendingWrite' = NoWrite
    /\ UNCHANGED <<uploadState, inFlight, dropCount, outsideUpload>>

(* addDoc rejected, were setIsProcessing(false) at the end of the try      *)
(* block and not in a finally.                                             *)
WriteFailedWithoutFinally ==
    /\ pendingWrite.waiting
    /\ lastToast' = "Processing Error"
    /\ pendingWrite' = NoWrite
    /\ UNCHANGED <<isProcessing, uploadState, inFlight, dropCount, handed, outsideUpload>>

(* addDoc rejected (lines 216-225).                                        *)
WriteFailed ==
    /\ pendingWrite.waiting
    /\ lastToast' = "Processing Error"
    /\ isProcessing' = FALSE
    /\ pendingWrite' = NoWrite
    /\ UNCHANGED <<uploadState, inFlight, dropCount, handed, outsideUpload>>

(* A first drop on a zone: one upload for each kind of data.               *)
DropFirst(type, file) ==
    /\ uploadState[type].file = "null"
    /\ Drop(type, file)

NextThreeUploads ==
    \/ \E type \in Kinds : \E file \in UploadFiles(type) : DropFirst(type, file)
    \/ \E drop \in inFlight : DropParsed(drop)
    \/ \E drop \in inFlight : DropParseFailed(drop)

NextUpload ==
    \/ \E type \in Kinds : \E file \in UploadFiles(type) : Drop(type, file)
    \/ DropNothing
    \/ \E drop \in inFlight : DropParsed(drop)
    \/ \E drop \in inFlight : DropParseFailed(drop)
    \/ Proceed
    \/ WriteDone
    \/ WriteFailed

(* The upload component's state apart from the toast, which the chat       *)
(* shares (useToast).                                                      *)
uploadStateVars == <<uploadState, isProcessing, inFlight, dropCount, pendingWrite, handed>>

outsideChat == <<summaryVars, validatorVars, decoderVars, uploadStateVars>>

(* onChange of the input (line 323); the input is disabled while a query   *)
(* is loading (line 327).                                                  *)
Type(text) ==
    /\ messages # <<>>
    /\ ~isLoading
    /\ inputValue' = text
    /\ UNCHANGED <<messages, isLoading, isTyping, pendingQuery, sendCount, lastToast, outsideChat>>

(* handleSuggestionClick, lines 150-152.                                   *)
handleSuggestionClick(suggestion) ==
    /\ messages # <<>>
    /\ inputValue' = suggestion
    /\ UNCHANGED <<messages, isLoading, isTyping, pendingQuery, sendCount, lastToast, outsideChat>>

(* handleSendMessage returning at line 76.                                 *)
SendIgnored ==
    /\ messages # <<>>
    /\ returnsEarly(inputValue, isLoading)
    /\ UNCHANGED vars

(* handleSendMessage up to its await (lines 75-100).                       *)
Send ==
    /\ messages # <<>>
    /\ ~returnsEarly(inputValue, isLoading)
    /\ sendCount < MaxSends
    /\ messages' = Append(messages, userMessage(inputValue))
    /\ inputValue' = <<>>
    /\ isLoading' = TRUE
    /\ isTyping' = TRUE
    /\ pendingQuery' = queryOf(inputValue)
    /\ sendCount' = sendCount + 1
    /\ UNCHANGED <<lastToast, outsideChat>>

(* queryGemini resolved (lines 100-110, 129-131).                          *)
QueryResolved(response) ==
    /\ pendingQuery.waiting
    /\ isTyping' = FALSE
    /\ messages' = Append(messages, aiMessage(response))
    /\ isLoading' = FALSE
    /\ pendingQuery' = NoQuery
    /\ UNCHANGED <<inputValue, sendCount, lastToast, outsideChat>>

(* queryGemini rejected (lines 111-131).                                   *)
QueryRejected ==
    /\ pendingQuery.waiting
    /\ isTyping' = FALSE
    /\ messages' = Append(messages, errorMessage)
    /\ isLoading' = FALSE
    /\ pendingQuery' = NoQuery
    /\ lastToast' = "AI Response Error"
    /\ UNCHANGED <<inputValue, sendCount, outsideChat>>

(* The effect of lines 45-73 run again: App.tsx line 26 stores another     *)
(* summary when an onComplete arrives after the chat is shown.             *)
SummaryReplaced ==
    /\ messages # <<>>
    /\ messages' = <<welcomeMessage>>
    /\ UNCHANGED <<inputValue, isLoading, isTyping, pendingQuery, sendCount, lastToast, outsideChat>>

NextChat ==
    \/ \E text \in TypedTexts : Type(text)
    \/ \E i \in 1..Len(suggestionButtons) : handleSuggestionClick(suggestionButtons[i])
    \/ SendIgnored
    \/ Send
    \/ \E response \in GeminiResponses : QueryResolved(response)
    \/ QueryRejected
    \/ SummaryReplaced

Next ==
    Call \/ CallBetween \/ CallAgain \/ Validate \/ ParseComplete \/ ParseError
    \/ NextUpload \/ handleLoadDemo \/ NextChat

Spec == Init /\ [][Next]_vars

SpecSales == InitSales /\ [][Call]_vars

SpecUploadedSales == InitUploadedSales /\ [][Call]_vars

SpecInventory == InitInventory /\ [][Call]_vars

SpecCapInventory == InitCapInventory /\ [][Call]_vars

SpecReviews == InitReviews /\ [][Call]_vars

NextTwice == Call \/ CallBetween \/ CallAgain

(* Two calls on the same arguments, with inventories in any order.        *)
SpecTwice == InitTwice /\ [][NextTwice]_vars

SpecValidators == InitValidators /\ [][Validate]_vars

NextDecoder == ParseComplete \/ ParseError

SpecDecoder == InitDecoder /\ [][NextDecoder]_vars

SpecUpload == InitUpload /\ [][NextUpload]_vars

SpecThreeUploads == InitUpload /\ [][NextThreeUploads]_vars

(* A file dropped while handleProceedToAnalysis awaits addDoc: the drop    *)
(* zones stay active.                                                      *)
DropDuringWrite(type, file) ==
    /\ pendingWrite.waiting
    /\ Drop(type, file)

(* One upload for each kind, then the analysis.                            *)
NextAnalysis ==
    \/ \E type \in Kinds : \E file \in UploadFiles(type) : DropFirst(type, file)
    \/ \E type \in Kinds : \E file \in UploadFiles(type) : DropDuringWrite(type, file)
    \/ \E drop \in inFlight : DropParsed(drop)
    \/ \E drop \in inFlight : DropParseFailed(drop)
    \/ Proceed
    \/ WriteDone
    \/ WriteFailed

SpecAnalysis == InitUpload /\ [][NextAnalysis]_vars

(* The parser of every dropped file completes or errors: of the parses    *)
(* pending for a kind, one ends.                                           *)
ParseEnds(type) ==
    \E drop \in inFlight :
        drop.type = type /\ (DropParsed(drop) \/ DropParseFailed(drop))

(* One of the first MaxEarlyDrops drops.                                    *)
DropEarly(type, file) ==
    /\ dropCount < MaxEarlyDrops
    /\ Drop(type, file)

(* The uploads alone: files are dropped and their parses end.              *)
NextDrops ==
    \/ \E type \in Kinds : \E file \in UploadFiles(type) : DropEarly(type, file)
    \/ DropNothing
    \/ \E drop \in inFlight : DropParsed(drop)
    \/ \E drop \in inFlight : DropParseFailed(drop)

SpecDrops == InitUpload /\ [][NextDrops]_vars

SpecUploadFair ==
    InitUpload /\ [][NextDrops]_vars /\ \A type \in Kinds : WF_vars(ParseEnds(type))

SpecChat == InitChat /\ [][NextChat]_vars

SpecDemo == InitDemo /\ [][handleLoadDemo]_vars

---------------------------------------------------------------------------
(* Properties of the call.                                                 *)

HasReturned == result.status = "returned"

Summary == result.summary

(* What a cell contributes to a numeric sum: its number, and 0 when it is  *)
(* missing or not numeric.                                                 *)
NumberOrZero(cell) == IF cell.t = "number" THEN cell.n ELSE 0

RECURSIVE SumOfAmounts(_, _)
SumOfAmounts(rows, k) ==
    IF k = 0 THEN 0 ELSE SumOfAmounts(rows, k - 1) + NumberOrZero(rows[k].Amount)

(* C1: totalOrders is the number of sales rows and totalRevenue is the     *)
(* numeric sum of the Amount cells, a missing or non-numeric Amount        *)
(* counting as 0.  The code concatenates as soon as an Amount is a text.   *)
C1_TotalsAreNumericSums ==
    HasReturned =>
        /\ Summary.totalOrders = Len(salesData)
        /\ Summary.totalRevenue = Num(SumOfAmounts(salesData, Len(salesData)))

(* C2: on arguments the three validators accept, the call returns a        *)
(* summary.  The code throws on a later review row that has no Review.     *)
C2_NeverFailsOnValidatedInput ==
    ( /\ result.status # "none"
      /\ validateSalesData(salesData).valid
      /\ validateInventoryData(inventoryData).valid
      /\ validateReviewData(reviewData).valid )
    => HasReturned

(* The threshold of the claim: the record's own Min_Alert when it has one  *)
(* (an empty cell counts as none), and 5 otherwise.                        *)
OwnThreshold(item) ==
    IF item.Min_Alert.t = "undefined" \/ item.Min_Alert = Str("")
    THEN Num(5) ELSE item.Min_Alert

BelowOwnThreshold(item) == LessThan(item.Stock, OwnThreshold(item))

FromRowBelowThreshold(entry) ==
    \E i \in 1..Len(inventoryData) :
        /\ inventoryData[i].Product = entry.product
        /\ inventoryData[i].Stock = entry.stock
        /\ BelowOwnThreshold(inventoryData[i])

SortedByStock(low) ==
    \A e, f \in 1..Len(low) : e < f => ~LessThan(low[f].stock, low[e].stock)

(* C3: every entry of lowStockItems comes from a record whose Stock is     *)
(* strictly below its own Min_Alert (5 when it has none), and the entries  *)
(* are in non-decreasing order of stock.  The code takes 5 for a Min_Alert *)
(* of 0 as well.                                                           *)
C3_LowStockBelowOwnThreshold ==
    HasReturned =>
        /\ \A e \in 1..Len(Summary.lowStockItems) :
               FromRowBelowThreshold(Summary.lowStockItems[e])
        /\ SortedByStock(Summary.lowStockItems)

(* C4: the cap of lowStockItems is an argument of the call with default 5, *)
(* so that a call without one returns at most 5 entries.  The function     *)
(* takes the three arrays and nothing else, and line 92 slices at 10.      *)
C4_AtMostFiveLowStockItems == HasReturned => Len(Summary.lowStockItems) <= 5

RECURSIVE SumOfRevenues(_, _)
SumOfRevenues(top, k) ==
    IF k = 0 THEN 0 ELSE SumOfRevenues(top, k - 1) + top[k].revenue.n

(* C5: topProducts has at most 5 entries, of non-increasing revenue, whose *)
(* revenues sum to no more than totalRevenue.  With an Amount that is a    *)
(* text the revenues and the total are strings (see C1).                   *)
C5_TopProductsBounded ==
    HasReturned =>
        /\ Len(Summary.topProducts) <= 5
        /\ \A i \in 1..Len(Summary.topProducts) : IsNumber(Summary.topProducts[i].revenue)
        /\ \A i, j \in 1..Len(Summary.topProducts) :
               i < j => ~NumLess(Summary.topProducts[i].revenue,
                                 Summary.topProducts[j].revenue)
        /\ IsNumber(Summary.totalRevenue)
        /\ SumOfRevenues(Summary.topProducts, Len(Summary.topProducts))
               <= Summary.totalRevenue.n

RECURSIVE SumOfProduct(_, _, _)
SumOfProduct(rows, k, product) ==
    IF k = 0 THEN 0
    ELSE SumOfProduct(rows, k - 1, product)
         + (IF ToPropertyKey(rows[k].Product) = product
            THEN NumberOrZero(rows[k].Amount) ELSE 0)

RevenueOfProduct(product) == SumOfProduct(salesData, Len(salesData), product)

(* C6: topProducts groups the sales by Product: no product twice, each     *)
(* revenue the sum of the Amounts of the product's rows, and no product    *)
(* left out that earned strictly more than one that is in.  With an Amount *)
(* that is a text the revenue is a string (see C1).                        *)
C6_TopProductsGroupByProduct ==
    HasReturned =>
        /\ \A i, j \in 1..Len(Summary.topProducts) :
               i # j => Summary.topProducts[i].product # Summary.topProducts[j].product
        /\ \A i \in 1..Len(Summary.topProducts) :
               Summary.topProducts[i].revenue =
                   Num(RevenueOfProduct(Summary.topProducts[i].product))
        /\ \A k \in 1..Len(salesData) :
               \/ \E i \in 1..Len(Summary.topProducts) :
                      Summary.topProducts[i].product = ToPropertyKey(salesData[k].Product)
               \/ \A i \in 1..Len(Summary.topProducts) :
                      RevenueOfProduct(ToPropertyKey(salesData[k].Product))
                          <= RevenueOfProduct(Summary.topProducts[i].product)

InUnitInterval(v) == IsNumber(v) /\ -v.d <= v.n /\ v.n <= v.d

(* C7: the sentimentScore of a returned summary lies in [-1, 1], and is 0  *)
(* for no reviews.                                                         *)
C7_SentimentWithinUnitInterval ==
    HasReturned =>
        /\ InUnitInterval(Summary.sentimentScore)
        /\ (reviewData = <<>> => Summary.sentimentScore = Num(0))

(* The clamp acts: the deltas sum to more than the number of reviews, or   *)
(* to less than its opposite.                                              *)
C7_Witness ==
    /\ HasReturned
    /\ Len(reviewData) >= 2
    /\ \/ /\ sentimentScore(reviewData, Len(reviewData)) > Len(reviewData)
          /\ Summary.sentimentScore = Num(1)
       \/ /\ sentimentScore(reviewData, Len(reviewData)) < -Len(reviewData)
          /\ Summary.sentimentScore = Num(-1)

LexiconPositive ==
    {<<"g", "o", "o", "d">>, <<"g", "r", "e", "a", "t">>,
     <<"e", "x", "c", "e", "l", "l", "e", "n", "t">>,
     <<"a", "m", "a", "z", "i", "n", "g">>, <<"l", "o", "v", "e">>,
     <<"p", "e", "r", "f", "e", "c", "t">>,
     <<"w", "o", "n", "d", "e", "r", "f", "u", "l">>}

LexiconNegative ==
    {<<"b", "a", "d">>, <<"t", "e", "r", "r", "i", "b", "l", "e">>,
     <<"a", "w", "f", "u", "l">>, <<"h", "a", "t", "e">>,
     <<"w", "o", "r", "s", "t">>, <<"h", "o", "r", "r", "i", "b", "l", "e">>,
     <<"d", "i", "s", "a", "p", "p", "o", "i", "n", "t", "i", "n", "g">>}

SameLetter(c, l) ==
    c = l \/ \E k \in 1..Len(UpperCase) : UpperCase[k] = c /\ LowerCase[k] = l

(* The lexicon word occurs somewhere in the text, whatever the case of the *)
(* text's letters.                                                         *)
Occurs(word, chars) ==
    \E at \in 0..(Len(chars) - Len(word)) :
        \A k \in 1..Len(word) : SameLetter(chars[at + k], word[k])

DistinctMatches(lexicon, chars) == Cardinality({word \in lexicon : Occurs(word, chars)})

RECURSIVE TotalDelta(_, _)
TotalDelta(reviews, k) ==
    IF k = 0 THEN 0
    ELSE TotalDelta(reviews, k - 1)
         + DistinctMatches(LexiconPositive, reviews[k].Review.c)
         - DistinctMatches(LexiconNegative, reviews[k].Review.c)

Clamped(total, count) ==
    IF total >= count THEN Num(1)
    ELSE IF total <= -count THEN Num(-1)
    ELSE Fraction(total, count)

(* C8: for reviews that are not empty the returned sentimentScore is       *)
(* clamp(totalDelta / reviewCount, -1, 1), totalDelta counting per review  *)
(* the distinct positive words occurring in the text minus the distinct    *)
(* negative ones, whatever the case.                                       *)
C8_SentimentIsClampedMeanDelta ==
    (HasReturned /\ reviewData # <<>>) =>
        Summary.sentimentScore =
            Clamped(TotalDelta(reviewData, Len(reviewData)), Len(reviewData))

(* Three reviews, one repeating a positive word and one in capitals, give  *)
(* a score strictly between 0 and 1.                                       *)
C8_Witness ==
    /\ HasReturned
    /\ Len(reviewData) = 3
    /\ reviewData[1].Review = Text(<<"g", "o", "o", "d", " ", "g", "o", "o", "d">>)
    /\ reviewData[2].Review = Text(<<"G", "r", "e", "a", "t">>)
    /\ reviewData[3].Review = Text(<<"b", "a", "d", "l", "y">>)
    /\ Summary.sentimentScore = Fraction(1, 3)

(* C9: averageOrderValue is totalRevenue / totalOrders when there are      *)
(* sales rows, so that averageOrderValue * totalOrders is totalRevenue,    *)
(* and 0 when there are none.  With an Amount that is a text totalRevenue  *)
(* is a string and the quotient is NaN (see C1).                           *)
C9_AverageOrderValue ==
    HasReturned =>
        IF Summary.totalOrders > 0
        THEN /\ IsNumber(Summary.averageOrderValue)
             /\ IsNumber(Summary.totalRevenue)
             /\ Summary.averageOrderValue.n * Summary.totalOrders
                        * Summary.totalRevenue.d
                    = Summary.totalRevenue.n * Summary.averageOrderValue.d
        ELSE Summary.averageOrderValue = Num(0)

RECURSIVE SumOfRatings(_, _)
SumOfRatings(rows, k) ==
    IF k = 0 THEN 0 ELSE SumOfRatings(rows, k - 1) + NumberOrZero(rows[k].Rating)

(* C10: averageRating is the sum of the ratings divided by the number of   *)
(* review rows, and 0 for no rows.  With a Rating that is a text the sum   *)
(* is a string and the quotient is NaN.                                    *)
C10_AverageRatingIsMean ==
    HasReturned =>
        Summary.averageRating =
            (IF Len(reviewData) = 0 THEN Num(0)
             ELSE Fraction(SumOfRatings(reviewData, Len(reviewData)), Len(reviewData)))

---------------------------------------------------------------------------
(* Properties of the validators.                                           *)

HasValidated == validationResult # NotValidated

Errors == validationResult.errors

ErrorSet == {Errors[i] : i \in 1..Len(Errors)}

(* C11: on no rows each validator answers valid = false with the single    *)
(* message "No data found in the file".                                    *)
C11_EmptyIsNoData ==
    (HasValidated /\ fileRows = <<>>) =>
        validationResult = [valid |-> FALSE, errors |-> <<"No data found in the file">>]

C11_Witness ==
    /\ HasValidated
    /\ dataset = "reviews"
    /\ fileRows = <<>>
    /\ Errors = <<"No data found in the file">>

(* The required fields of each dataset, as the claim lists them.           *)
RequiredOf(kind) ==
    CASE kind = "sales" -> <<"Date", "Product", "Quantity", "Amount">>
      [] kind = "inventory" -> <<"Product", "Stock", "Price">>
      [] kind = "reviews" -> <<"Date", "Rating", "Review", "Product">>

FieldNames == {"Date", "Product", "Quantity", "Amount", "Stock", "Price", "Rating", "Review"}

MissingMessage(field) ==
    CASE field = "Date" -> "Missing required field: Date"
      [] field = "Product" -> "Missing required field: Product"
      [] field = "Quantity" -> "Missing required field: Quantity"
      [] field = "Amount" -> "Missing required field: Amount"
      [] field = "Stock" -> "Missing required field: Stock"
      [] field = "Price" -> "Missing required field: Price"
      [] field = "Rating" -> "Missing required field: Rating"
      [] field = "Review" -> "Missing required field: Review"

Lacks(row, field) == row[field].t = "undefined"

MissingOfFirstRow ==
    {field \in {RequiredOf(dataset)[i] : i \in 1..Len(RequiredOf(dataset))} :
        Lacks(fileRows[1], field)}

(* C12: for rows that are not empty the missing-field messages are those   *)
(* of the required fields the first row lacks, whatever later rows lack.   *)
C12_MissingFieldsOfFirstRow ==
    (HasValidated /\ fileRows # <<>>) =>
        \A field \in FieldNames :
            (MissingMessage(field) \in ErrorSet) <=> (field \in MissingOfFirstRow)

(* The first review row lacks Rating alone and the second lacks Review:    *)
(* Rating is the one field reported.                                       *)
C12_Witness ==
    /\ HasValidated
    /\ dataset = "reviews"
    /\ Len(fileRows) = 2
    /\ MissingOfFirstRow = {"Rating"}
    /\ Lacks(fileRows[2], "Review")
    /\ Errors = <<"Missing required field: Rating">>

RowNumber == <<"1", "2", "3", "4", "5", "6", "7", "8">>

RowMessage(k, field) == "Row " \o RowNumber[k] \o ": " \o field \o " must be a number"

(* A cell that is there and is no number: a text other than the empty one. *)
PresentNotNumeric(cell) == cell.t = "string" /\ cell.s # ""

(* C13: validateSalesData reports "Row n: Quantity must be a number"       *)
(* (resp. Amount) for the rows n among the first 5 whose cell is there and *)
(* is no number, and for no other row.  The code reports nothing for a     *)
(* cell of blanks, which Number() turns into 0.                            *)
C13_RowErrorsOfFirstFiveRows ==
    (HasValidated /\ dataset = "sales" /\ fileRows # <<>>) =>
        \A k \in 1..Len(fileRows) : \A field \in {"Quantity", "Amount"} :
            (RowMessage(k, field) \in ErrorSet)
                <=> (k <= 5 /\ PresentNotNumeric(fileRows[k][field]))

NotNumericCells ==
    IF dataset # "sales" THEN {}
    ELSE {c \in (1..Len(fileRows)) \X {"Quantity", "Amount"} :
             c[1] <= 5 /\ PresentNotNumeric(fileRows[c[1]][c[2]])}

(* C14: for rows that are not empty the errors hold one entry for every    *)
(* missing required field and, for sales, one for every cell of Quantity   *)
(* or Amount in the first 5 rows that is no number.  The entry of a cell   *)
(* of blanks is not there (see C13).                                       *)
C14_EveryProblemReported ==
    (HasValidated /\ fileRows # <<>>) =>
        /\ Len(Errors) = Cardinality(MissingOfFirstRow) + Cardinality(NotNumericCells)
        /\ \A field \in MissingOfFirstRow : MissingMessage(field) \in ErrorSet
        /\ \A c \in NotNumericCells : RowMessage(c[1], c[2]) \in ErrorSet

RECURSIVE RowMessagesUpTo(_)
RowMessagesUpTo(k) ==
    IF k = 0 THEN <<>>
    ELSE RowMessagesUpTo(k - 1) \o <<RowMessage(k, "Quantity"), RowMessage(k, "Amount")>>

(* Every message a validator can give for rows that are not empty, in the  *)
(* order of the claim.                                                     *)
MessageOrder(kind) ==
    [i \in 1..Len(RequiredOf(kind)) |-> MissingMessage(RequiredOf(kind)[i])] \o
    (IF kind = "sales" THEN RowMessagesUpTo(5) ELSE <<>>)

Place(message, order) ==
    IF \E i \in 1..Len(order) : order[i] = message
    THEN CHOOSE i \in 1..Len(order) : order[i] = message
    ELSE 0

InOrder(errors, order) ==
    \A i, j \in 1..Len(errors) :
        i < j => Place(errors[i], order) < Place(errors[j], order)

(* C15: valid is (errors is empty), and the errors are in insertion order: *)
(* the missing-field messages in the order of the required fields, then    *)
(* the row messages by ascending row, Quantity before Amount.              *)
C15_ValidIffNoErrorsInOrder ==
    HasValidated =>
        /\ validationResult.valid = (Errors = <<>>)
        /\ InOrder(Errors, MessageOrder(dataset))

C15_Witness ==
    /\ HasValidated
    /\ dataset = "sales"
    /\ Len(fileRows) = 2
    /\ validationResult.valid = FALSE
    /\ Errors = <<"Missing required field: Date", "Missing required field: Amount",
                  "Row 1: Quantity must be a number",
                  "Row 2: Quantity must be a number",
                  "Row 2: Amount must be a number">>

---------------------------------------------------------------------------
(* Properties of the decoder.                                              *)

HasResolved == promise.status = "resolved"

KeptLines == SelectSeq(csvFile.lines, isKeptLine)

(* The texts of the model that write a number, with the number written.    *)
NumberWritten(text) ==
    CASE text = "2" -> Num(2)
      [] text = "1000" -> Num(1000)
      [] text = "1.5" -> Fraction(3, 2)
      [] text = "1e3" -> Num(1000)
      [] text = "-3" -> Num(-3)
      [] OTHER -> NaN

CoercedColumns ==
    {"Quantity", "Amount", "Stock", "Price", "Rating", "Customer_Age", "Min_Alert"}

Decoded(text, column) ==
    IF column \in CoercedColumns /\ NumberWritten(text).t = "number"
    THEN NumberWritten(text) ELSE Str(text)

(* C16: a cell becomes a number exactly when its column is one of the      *)
(* seven numeric ones and its text writes a number; every other cell keeps *)
(* its text.  The code also turns a text that only starts like a number    *)
(* ("12abc", "1,000") into the number of its prefix.                       *)
C16_CoercesNumericColumnsOnly ==
    HasResolved =>
        \A i \in 1..Len(promise.value) :
            \A j \in 1..Len(CsvHeader) :
                j <= Len(KeptLines[i + 1]) =>
                    promise.value[i][CsvHeader[j].s] =
                        Decoded(KeptLines[i + 1][j].s, CsvHeader[j].s)

HasContent(line) == \E j \in 1..Len(line) : line[j].s # ""

ContentLines == SelectSeq(Tail(csvFile.lines), HasContent)

(* C17: one record for every data line with a cell that is not empty, in   *)
(* the order of the file, and none for a line whose cells are all empty.   *)
(* The code keeps a record for a line of delimiters alone.                 *)
C17_OneRecordPerLineWithContent ==
    HasResolved =>
        /\ Len(promise.value) = Len(ContentLines)
        /\ \A i \in 1..Len(ContentLines) :
               promise.value[i].Date = Str(ContentLines[i][1].s)

Ragged == \E k \in 2..Len(KeptLines) : Len(KeptLines[k]) # Len(CsvHeader)

(* C18: the promise is rejected only for a file that cannot be read; for   *)
(* every other file it resolves with all the decoded rows, with parse      *)
(* warnings or without.                                                    *)
C18_WarningsNeverBlock ==
    (promise.status \in {"resolved", "rejected"}) =>
        IF csvFile.readable
        THEN /\ HasResolved
             /\ Len(promise.value) = Len(KeptLines) - 1
             /\ promise.value = parseResults(csvFile.lines).data
             /\ warned = Ragged
        ELSE promise = Rejected

(* Resolved with three rows, one of them short, after a warning.           *)
C18_Witness ==
    /\ HasResolved
    /\ warned
    /\ Len(promise.value) = 3
    /\ \E i \in 1..3 : promise.value[i].Amount = Undefined

---------------------------------------------------------------------------
(* Properties of the upload component.                                     *)

(* C19: onComplete is called only while every kind's upload has passed     *)
(* validation: at no call is a kind idle, uploading or in error.  The code *)
(* checks the statuses before it awaits addDoc and calls onComplete after, *)
(* when a new drop may have changed them.                                  *)
C19_HandedOnlyWhenAllValid ==
    \A i \in 1..Len(handed) :
        \A k \in Kinds : handed[i].statuses[k] = "success"

---------------------------------------------------------------------------
(* Purity of the aggregation.                                              *)

ArgumentsKept ==
    /\ salesData' = salesData
    /\ inventoryData' = inventoryData
    /\ reviewData' = reviewData

(* C20: a call leaves the three arrays it is passed as they were (same     *)
(* rows, same order, same field values), and a second call on them gives   *)
(* the outcome of the first, whatever calls were made on them in between.  *)
C20_PureFunctionOfArguments ==
    /\ [][ArgumentsKept]_vars
    /\ [](again.status # "none" => again = result)

(* Both calls returned, on an inventory the sort had to reorder.           *)
C20_Witness ==
    /\ HasReturned
    /\ again = result
    /\ Len(inventoryData) = 2
    /\ inventoryData[1].Stock = Num(3)
    /\ inventoryData[2].Stock = Num(2)
    /\ Len(Summary.lowStockItems) = 2
    /\ Summary.lowStockItems[1].stock = Num(2)

---------------------------------------------------------------------------
(* C21: the summary the demo call site hands on agrees with                *)
(* generateBusinessSummary applied to the sales, inventory and reviews     *)
(* handed on with it, on totalRevenue, totalOrders, averageOrderValue,     *)
(* topProducts, averageRating and sentimentScore; so its sentimentScore is *)
(* the scorer's output for the bundled reviews.                            *)
C21_DemoAgreesWithEngine ==
    HasReturned =>
        \E engine \in generateBusinessSummary(salesData, inventoryData, reviewData) :
            /\ engine.status = "returned"
            /\ Summary.totalRevenue = engine.summary.totalRevenue
            /\ Summary.totalOrders = engine.summary.totalOrders
            /\ Summary.averageOrderValue = engine.summary.averageOrderValue
            /\ Summary.topProducts = engine.summary.topProducts
            /\ Summary.averageRating = engine.summary.averageRating
            /\ Summary.sentimentScore = engine.summary.sentimentScore

---------------------------------------------------------------------------
(* The upload component, one upload for each kind.                         *)

FileNamed(type, name) == CHOOSE file \in UploadFiles(type) : file.name = name

InFlightOf(type) == {drop \in inFlight : drop.type = type}

Finished(type) == uploadState[type].file # "null" /\ InFlightOf(type) = {}

(* What a finished upload of the file shows, whatever else went on.        *)
FinishedEntry(type, file) ==
    IF ~file.readable
    THEN [file |-> file.name, status |-> "error", data |-> NoData,
          errors |-> [defined |-> TRUE, list |-> <<"Failed to parse CSV file">>]]
    ELSE IF validate(type, file.data).valid
    THEN [file |-> file.name, status |-> "success",
          data |-> [defined |-> TRUE, rows |-> file.data], errors |-> NoErrors]
    ELSE [file |-> file.name, status |-> "error", data |-> NoData,
          errors |-> [defined |-> TRUE, list |-> validate(type, file.data).errors]]

(* The kinds whose upload started or completed in the step.                *)
SteppedKinds ==
    {drop.type : drop \in (inFlight' \ inFlight) \cup (inFlight \ inFlight')}

OnlyOwnKindChanges ==
    \A k \in Kinds : uploadState'[k] # uploadState[k] => k \in SteppedKinds

(* C22: a step of the upload of one kind changes the file, status, data    *)
(* and errors of that kind alone, and once the upload of a kind has        *)
(* finished its entry is the one its file determines, in whatever order    *)
(* the three uploads started and completed.                                *)
C22_UploadsIndependent ==
    /\ [][OnlyOwnKindChanges]_vars
    /\ [](\A k \in Kinds :
            Finished(k) => uploadState[k] = FinishedEntry(k, FileNamed(k, uploadState[k].file)))

(* All three uploads have finished, the sales upload after the other two   *)
(* although it started first.                                              *)
C22_Witness ==
    /\ \A k \in Kinds : Finished(k)
    /\ uploadState["sales"].status = "success"
    /\ uploadState["inventory"].status = "error"
    /\ uploadState["reviews"].status = "success"
    /\ lastToast = "Sales Data uploaded successfully!"

ParseFailedErrors == [defined |-> TRUE, list |-> <<"Failed to parse CSV file">>]

(* The step in which the decoding of the dropped file fails.               *)
DecodingFails(drop) == ~drop.file.readable /\ drop \notin inFlight'

(* C23: when the decoding of a dropped file fails, the status of its kind  *)
(* becomes 'error' with the errors ['Failed to parse CSV file'], the       *)
(* failure is reported as such and not as a validation result, and the     *)
(* data stored for the kind is what it was.                                *)
C23_DecodeFailureStopsPipeline ==
    [][\A drop \in inFlight :
          DecodingFails(drop) =>
              /\ uploadState'[drop.type].status = "error"
              /\ uploadState'[drop.type].errors = ParseFailedErrors
              /\ uploadState'[drop.type].data = uploadState[drop.type].data
              /\ lastToast' = "Upload failed"]_vars

(* The decoding of a second sales file has failed after a first one was    *)
(* accepted: the rows of the first are still stored.                       *)
C23_Witness ==
    /\ uploadState["sales"].status = "error"
    /\ uploadState["sales"].errors = ParseFailedErrors
    /\ uploadState["sales"].file = "sales.bin"
    /\ uploadState["sales"].data.defined
    /\ InFlightOf("sales") = {}
    /\ lastToast = "Upload failed"

(* C24: whenever the status of a kind is 'success', the data stored for    *)
(* it are the rows decoded from the file stored for it, and its validator  *)
(* accepts them; also when two files of the kind were dropped and parsed   *)
(* at the same time.                                                       *)
C24_SuccessDataIsOfStoredFile ==
    \A k \in Kinds :
        uploadState[k].status = "success" =>
            /\ FileNamed(k, uploadState[k].file).readable
            /\ validate(k, FileNamed(k, uploadState[k].file).data).valid
            /\ uploadState[k].data =
                   [defined |-> TRUE, rows |-> FileNamed(k, uploadState[k].file).data]

---------------------------------------------------------------------------
(* handleProceedToAnalysis.                                                *)

(* An attempt ends in the step: its write is no longer awaited.            *)
AttemptEnds == pendingWrite.waiting /\ ~pendingWrite'.waiting

(* The attempt fails in the step, at the summary or at the write.          *)
AttemptFails == lastToast' = "Processing Error" /\ pendingWrite' = NoWrite

OnCompleteInvoked == handed' # handed

(* C25: onComplete is invoked only in the step in which the awaited write  *)
(* succeeds, with what was written; an attempt that fails at the summary   *)
(* or at the write invokes nothing; and isProcessing is true exactly while *)
(* a write is awaited, so it is false again when the attempt ends.         *)
C25_OnCompleteOnlyAfterWrite ==
    /\ [][/\ OnCompleteInvoked =>
                /\ AttemptEnds
                /\ lastToast' = "Data Analysis Ready!"
                /\ handed' = Append(handed, onCompleteCall(pendingWrite, uploadState))
          /\ AttemptFails => ~OnCompleteInvoked /\ ~isProcessing'
          /\ AttemptEnds => ~isProcessing']_vars
    /\ [](isProcessing = pendingWrite.waiting)

(* The write of an attempt on three accepted files has failed: nothing was *)
(* handed on and the button is enabled again.                              *)
C25_Witness ==
    /\ lastToast = "Processing Error"
    /\ dropCount = 3
    /\ inFlight = {}
    /\ allUploadsComplete(uploadState)
    /\ uploadState["reviews"].file = "reviews.csv"
    /\ handed = <<>>
    /\ ~isProcessing
    /\ ~pendingWrite.waiting

---------------------------------------------------------------------------
(* The status of an upload.                                                *)

Settled(type) == uploadState[type].status \in {"success", "error"}

(* The parses of the kind that end in the step.                            *)
EndedParses(type) == {drop \in inFlight \ inFlight' : drop.type = type}

StartedParses(type) == {drop \in inFlight' \ inFlight : drop.type = type}

Accepted(drop) == drop.file.readable /\ validate(drop.type, drop.file.data).valid

LeavesUploading(type) ==
    uploadState[type].status = "uploading" /\ uploadState'[type] # uploadState[type]

(* C26: a kind in status 'uploading' eventually has status 'success' or    *)
(* 'error'; and it leaves 'uploading' only for 'success', when a parse of  *)
(* the kind ends with rows its validator accepts, for 'error', when a      *)
(* parse of the kind fails or ends with rows the validator rejects, or for *)
(* 'uploading' again, when a new file of the kind is dropped.              *)
C26_UploadingEnds ==
    /\ \A k \in Kinds : (uploadState[k].status = "uploading") ~> Settled(k)
    /\ [][\A k \in Kinds :
             LeavesUploading(k) =>
                 \/ /\ uploadState'[k].status = "success"
                    /\ \E drop \in EndedParses(k) : Accepted(drop)
                 \/ /\ uploadState'[k].status = "error"
                    /\ \E drop \in EndedParses(k) : ~Accepted(drop)
                 \/ /\ uploadState'[k].status = "uploading"
                    /\ StartedParses(k) # {}]_vars

(* A sales upload has left 'uploading' for 'error' on rows its validator   *)
(* rejects, after a second drop had renewed the status.                    *)
C26_Witness ==
    /\ uploadState["sales"].status = "error"
    /\ uploadState["sales"].file = "sales-short.csv"
    /\ uploadState["sales"].errors.defined
    /\ uploadState["sales"].errors # ParseFailedErrors
    /\ dropCount = 2
    /\ InFlightOf("sales") # {}
    /\ uploadState["inventory"].status = "idle"

---------------------------------------------------------------------------
(* The chat component.                                                     *)

Appended(message) == messages' = Append(messages, message)

(* A send is accepted in the step: a user message is appended.             *)
SendAccepted == \E text \in TypedTexts \cup {inputValue} : Appended(userMessage(text))

(* The query ends in the step.                                             *)
QueryEnds == pendingQuery.waiting /\ ~pendingQuery'.waiting

Replies == {aiMessage(response) : response \in GeminiResponses} \cup {errorMessage}

IsBlank(chars) == \A i \in 1..Len(chars) : chars[i] \in WhiteSpace

(* Every user message shown is followed by one AI message and then, if at  *)
(* all, by a user message; the last one waits for its reply.               *)
OneReplyEach ==
    \A i \in 1..Len(messages) :
        messages[i].type = "user" =>
            IF i = Len(messages) THEN isLoading
            ELSE /\ messages[i + 1] \in Replies
                 /\ i + 2 <= Len(messages) => messages[i + 2].type = "user"

(* C27: a send is accepted only when the input is not blank and no query   *)
(* is loading; the user message is appended at once, with the input as its *)
(* content, and the query ends by appending exactly one AI message, the    *)
(* analysis of the response or the apology, which happens before another   *)
(* send is accepted; isLoading and isTyping are true while the query is    *)
(* awaited and false again when it has ended either way.                   *)
C27_ChatAlternates ==
    /\ [][/\ SendAccepted =>
                /\ ~IsBlank(inputValue)
                /\ ~isLoading
                /\ ~pendingQuery.waiting
                /\ Appended(userMessage(inputValue))
                /\ isLoading'
          /\ QueryEnds =>
                /\ \E reply \in Replies : Appended(reply)
                /\ ~isLoading'
                /\ ~isTyping'
          /\ (\E reply \in Replies : Appended(reply)) => QueryEnds]_vars
    /\ [](OneReplyEach)
    /\ [](isLoading = pendingQuery.waiting /\ isTyping = isLoading)

(* Two messages were sent: the first query failed, the second was          *)
(* answered; the first message had blanks around its text.                 *)
C27_Witness ==
    /\ Len(messages) = 5
    /\ messages[2] = userMessage(<<" ", "W", "h", "y", "?", " ">>)
    /\ messages[3] = errorMessage
    /\ messages[4].type = "user"
    /\ messages[5] \in Replies \ {errorMessage}
    /\ ~isLoading
    /\ ~isTyping
    /\ IsBlank(inputValue) /\ inputValue # <<>>

=============================================================================
